---- MODULE Spec2Model ----
(***************************************************************************)
(* Report assembly and year-eligibility engine of gorogara/ddalkkak.        *)
(*                                                                         *)
(* Texts are sequences of characters.  A character is a one-element token: *)
(* an ASCII character stands for itself, a Hangul syllable is written by   *)
(* its romanisation ("cha" is U+CC28, "beon" is U+BC88, ...).              *)
(***************************************************************************)
EXTENDS Integers, Sequences, FiniteSets, TLC

VARIABLES
    pc,                     \* position of the driver of the specification
    \* ---- year_filter.should_include_content: arguments and result
    content_text,
    section_title,
    current_year,
    has_next_year_section,
    matching_sections,
    include_result,
    \* ---- generate_full_report: its environment, the last call and the call
    \* ---- before it (arguments, result and events of each)
    table_of_contents,
    max_token_limit,        \* MAX_TOKEN_LIMIT
    db_docs,                \* what the retrieval store holds
    backend,                \* what the generation backend answers, per node
    client_ok,              \* OPENAI_API_KEY is set and the client was built
    last_call,
    prev_call,
    \* ---- combine_sections and parse_report_sections: argument and results
    sections_in,
    flat_text,
    sections_out,
    \* ---- analyze_modification_request: argument and result
    request_input,
    intent,
    \* ---- refine_report_with_request: the report the session holds and the
    \* ---- last call (arguments, result and events)
    generated_report,
    last_refine,
    \* ---- the TOC editor of app.py: the last call of add_section or
    \* ---- delete_section on the session's TOC, and the list that
    \* ---- sort_toc_by_hierarchy returned
    last_edit,
    display_toc,
    \* ---- main of app.py: report_generation_progress, is_refining and the
    \* ---- latest modification request of the session, and what the last run
    \* ---- of the script did
    session

yearVars == <<content_text, section_title, include_result>>
ctxVars == <<current_year, has_next_year_section, matching_sections>>
loopVars == <<table_of_contents, max_token_limit, db_docs, backend, client_ok,
              last_call, prev_call>>
refineVars == <<sections_in, flat_text, sections_out, request_input, intent,
                generated_report, last_refine>>
editVars == <<last_edit, display_toc>>
vars == <<pc, yearVars, ctxVars, loopVars, refineVars, editVars, session>>

----------------------------------------------------------------------------
(* Characters *)

NL == "\n"
SP == " "
DOT == "."
DASH == "-"
EQ == "="
Digits == {"0", "1", "2", "3", "4", "5", "6", "7", "8", "9"}
\* str.isspace(), restricted to the characters of the model
Whitespace == {SP, NL, "\t"}

\* Hangul syllables used by the patterns of the source
CHA == "cha"
NYEON == "nyeon"
DO == "do"
BEON == "beon"
JJAE == "jjae"
SEK == "sek"
SYEON == "syeon"
JEON == "jeon"
CHE == "che"
MO == "mo"
DU == "du"
DA == "da"
SI == "si"
CHU == "chu"
GA == "ga"
DEO == "deo"
BO == "bo"
WAN == "wan"
GYE == "gye"
HOEK == "hoek"

IsDigit(c) == c \in Digits
IsSpace(c) == c \in Whitespace

DigitVal(c) ==
    CASE c = "0" -> 0 [] c = "1" -> 1 [] c = "2" -> 2 [] c = "3" -> 3
      [] c = "4" -> 4 [] c = "5" -> 5 [] c = "6" -> 6 [] c = "7" -> 7
      [] c = "8" -> 8 [] c = "9" -> 9

----------------------------------------------------------------------------
(* Python str and list primitives *)

\* The list with the items f[1], f[2], ... of a function on 1..n
Listed(f) == <<>> \o f

\* s[i:] with 1-based i (the suffix that starts at position i)
From(s, i) == IF i > Len(s) THEN <<>> ELSE SubSeq(s, i, Len(s))

\* s[:n]
Take(s, n) == IF n >= Len(s) THEN s ELSE SubSeq(s, 1, n)

\* s.startswith(p)
StartsWith(s, p) == Len(p) <= Len(s) /\ SubSeq(s, 1, Len(p)) = p

\* p occurs in s at position i
OccursAt(s, p, i) == i + Len(p) - 1 <= Len(s) /\ SubSeq(s, i, i + Len(p) - 1) = p

\* a in b
Contains(b, a) == \E i \in 1..(Len(b) + 1) : OccursAt(b, a, i)

\* int(s) for a non-empty string of digits
RECURSIVE ParseInt(_)
ParseInt(s) ==
    IF s = <<>> THEN 0
    ELSE 10 * ParseInt(SubSeq(s, 1, Len(s) - 1)) + DigitVal(s[Len(s)])

\* sep.join(parts)
RECURSIVE JoinRange(_, _, _, _)
JoinRange(parts, sep, a, b) ==
    IF a > b THEN <<>>
    ELSE IF a = b THEN parts[a]
    ELSE LET m == (a + b) \div 2
         IN  JoinRange(parts, sep, a, m) \o sep \o JoinRange(parts, sep, m + 1, b)

Join(parts, sep) == JoinRange(parts, sep, 1, Len(parts))

\* s.split(sep) for a non-empty separator
\* (position i is a cut when sep occurs there and no cut overlaps it from the
\* left: the scan goes on after each occurrence it has found)
RECURSIVE IsCut(_, _, _)
IsCut(s, sep, i) ==
    /\ OccursAt(s, sep, i)
    /\ \A j \in (i - Len(sep) + 1)..(i - 1) : j >= 1 => ~IsCut(s, sep, j)

Split(s, sep) ==
    LET cuts == { i \in DOMAIN s : IsCut(s, sep, i) }
        c == Cardinality(cuts)
        \* the cuts from left to right
        CutAt == Listed([ m \in 1..c |->
                            CHOOSE j \in cuts : Cardinality({ k \in cuts : k < j }) = m - 1 ])
    IN  Listed([ m \in 1..(c + 1) |->
                   SubSeq(s, IF m = 1 THEN 1 ELSE CutAt[m - 1] + Len(sep),
                             IF m = c + 1 THEN Len(s) ELSE CutAt[m] - 1) ])

\* s.lstrip(), s.rstrip(), s.strip()
RECURSIVE LStrip(_)
LStrip(s) == IF s # <<>> /\ IsSpace(s[1]) THEN LStrip(Tail(s)) ELSE s

RECURSIVE RStrip(_)
RStrip(s) ==
    IF s # <<>> /\ IsSpace(s[Len(s)]) THEN RStrip(SubSeq(s, 1, Len(s) - 1)) ELSE s

Strip(s) == RStrip(LStrip(s))

\* c * n for a one-character string c
Repeat(c, n) == [i \in 1..n |-> c]

\* The end (exclusive, 1-based) of the maximal run of characters of class
\* cls that starts at position i
RECURSIVE RunEnd(_, _, _)
RunEnd(s, i, cls) == IF i <= Len(s) /\ s[i] \in cls THEN RunEnd(s, i + 1, cls) ELSE i

----------------------------------------------------------------------------
(* utils/year_filter.py *)

\* The four patterns of extract_year_from_text.  Each is (\d+) followed by a
\* literal, optional whitespace (\s*) where ws is TRUE, and a second literal.
YearPatterns == <<
    [lit |-> <<CHA, NYEON, DO>>, ws |-> FALSE, post |-> <<>>],
    [lit |-> <<CHA>>,            ws |-> TRUE,  post |-> <<NYEON, DO>>],
    [lit |-> <<NYEON, CHA>>,     ws |-> FALSE, post |-> <<>>],
    [lit |-> <<CHA>>,            ws |-> FALSE, post |-> <<>>] >>

\* The regex engine's match of one year pattern at position i: the greedy
\* digit run, then the rest.  0 when there is no match at i, else the position
\* after the match.  (Giving back digits never helps: the rest begins with a
\* non-digit.)
YearMatchEnd(text, i, pat) ==
    IF ~(i <= Len(text) /\ IsDigit(text[i])) THEN 0
    ELSE LET d == RunEnd(text, i, Digits)
             a == d + Len(pat.lit)
             b == IF pat.ws THEN RunEnd(text, a, Whitespace) ELSE a
         IN  IF OccursAt(text, pat.lit, d) /\ OccursAt(text, pat.post, b)
             THEN b + Len(pat.post)
             ELSE 0

\* More letters of the titles of detect_next_year_sections
EUM == "eum"
SU == "su"
HAENG == "haeng"
NAE == "nae"
IK == "ik"
HYANG == "hyang"
HU == "hu"

\* The elements of the patterns of detect_next_year_sections: letters, \s*
\* and \d+
Lit(text) == [kind |-> "lit", text |-> text]
AnySpace == [kind |-> "ws", text |-> <<>>]
SomeDigits == [kind |-> "digits", text |-> <<>>]

\* next_year_patterns, in the order of the list
NextYearPatterns == <<
    <<Lit(<<DA, EUM, NYEON, DO>>), AnySpace, Lit(<<SU, HAENG>>), AnySpace, Lit(<<GYE, HOEK>>)>>,
    <<Lit(<<DA, EUM, NYEON, DO>>), AnySpace, Lit(<<GYE, HOEK>>)>>,
    <<Lit(<<CHA, NYEON, DO>>), AnySpace, Lit(<<GYE, HOEK>>)>>,
    <<Lit(<<CHA, NYEON, DO>>), AnySpace, Lit(<<SU, HAENG>>), AnySpace, Lit(<<GYE, HOEK>>)>>,
    <<Lit(<<NAE, NYEON>>), AnySpace, Lit(<<GYE, HOEK>>)>>,
    <<Lit(<<NAE, NYEON>>), AnySpace, Lit(<<SU, HAENG>>), AnySpace, Lit(<<GYE, HOEK>>)>>,
    <<Lit(<<IK, NYEON, DO>>), AnySpace, Lit(<<GYE, HOEK>>)>>,
    <<Lit(<<IK, NYEON, DO>>), AnySpace, Lit(<<SU, HAENG>>), AnySpace, Lit(<<GYE, HOEK>>)>>,
    <<Lit(<<HYANG, HU>>), AnySpace, Lit(<<GYE, HOEK>>)>>,
    <<SomeDigits, Lit(<<CHA, NYEON, DO>>), AnySpace, Lit(<<GYE, HOEK>>)>>,
    <<SomeDigits, Lit(<<CHA, NYEON, DO>>), AnySpace, Lit(<<SU, HAENG>>), AnySpace,
      Lit(<<GYE, HOEK>>)>> >>

\* The regex engine's match of the elements k.. of a pattern at position i:
\* the position after the match, 0 when there is none.  (A greedy run never
\* has to give back: what follows \s* is no whitespace and what follows \d+ is
\* no digit.)
RECURSIVE ElementsEnd(_, _, _, _)
ElementsEnd(text, i, elems, k) ==
    IF k > Len(elems) THEN i
    ELSE IF elems[k].kind = "lit"
         THEN IF OccursAt(text, elems[k].text, i)
              THEN ElementsEnd(text, i + Len(elems[k].text), elems, k + 1)
              ELSE 0
    ELSE IF elems[k].kind = "ws"
         THEN ElementsEnd(text, RunEnd(text, i, Whitespace), elems, k + 1)
    ELSE IF i <= Len(text) /\ IsDigit(text[i])
         THEN ElementsEnd(text, RunEnd(text, i, Digits), elems, k + 1)
         ELSE 0

\* "for pattern in next_year_patterns: if re.search(pattern, title, ...)"
IsNextYearTitle(title) ==
    \E p \in DOMAIN NextYearPatterns :
        \E i \in 1..(Len(title) + 1) : ElementsEnd(title, i, NextYearPatterns[p], 1) # 0

\* The positions of the nodes that the loop of detect_next_year_sections
\* appends: "if not title: continue"
Detected(toc) ==
    { k \in DOMAIN toc : Strip(toc[k].title) # <<>> /\ IsNextYearTitle(Strip(toc[k].title)) }

\* detect_next_year_sections: has_next_year_section and the stripped titles
detect_next_year_sections(toc) ==
    [ has_next_year_section |-> Detected(toc) # {},
      matching_sections |-> Listed([ m \in 1..Cardinality(Detected(toc)) |->
                                       Strip(toc[CHOOSE k \in Detected(toc) :
                                                   Cardinality({ j \in Detected(toc) : j < k })
                                                       = m - 1].title) ]) ]

\* (variant: re.search in place of re.findall, the first match only)
RECURSIVE YearFindAll_FirstOnly(_, _, _)
YearFindAll_FirstOnly(text, i, pat) ==
    IF i > Len(text) THEN <<>>
    ELSE IF YearMatchEnd(text, i, pat) = 0 THEN YearFindAll_FirstOnly(text, i + 1, pat)
    ELSE <<SubSeq(text, i, RunEnd(text, i, Digits) - 1)>>

\* re.findall(pattern, text): the captures of the non-overlapping matches,
\* scanning left to right
RECURSIVE YearFindAll(_, _, _)
YearFindAll(text, i, pat) ==
    IF i > Len(text) THEN <<>>
    ELSE LET e == YearMatchEnd(text, i, pat)
         IN  IF e = 0 THEN YearFindAll(text, i + 1, pat)
             ELSE <<SubSeq(text, i, RunEnd(text, i, Digits) - 1)>>
                  \o YearFindAll(text, e, pat)

\* sorted(list(s)) for a set of integers
RECURSIVE SortedList(_)
SortedList(s) ==
    IF s = {} THEN <<>>
    ELSE LET m == CHOOSE x \in s : \A y \in s : x <= y
         IN  <<m>> \o SortedList(s \ {m})

\* The range test of extract_year_from_text
YearInRange(year) == 1 <= year /\ year <= 10

extract_year_from_text(text) ==
    LET captures(p) == YearFindAll(text, 1, YearPatterns[p])
        found == UNION { { ParseInt(captures(p)[k]) : k \in DOMAIN captures(p) } :
                           p \in DOMAIN YearPatterns }
    IN  SortedList({ year \in found : YearInRange(year) })

\* (variant: only a title that contains the matching title counts)
TitleMatches_OneWay(matching_section, title) == Contains(title, matching_section)

\* "matching_section in section_title or section_title in matching_section"
TitleMatches(matching_section, title) ==
    Contains(title, matching_section) \/ Contains(matching_section, title)

\* The loop that sets is_next_year_section (year_filter.py, content_generator.py
\* and refinement.py hold the same loop)
IsNextYearSection(title, matching) ==
    \E k \in DOMAIN matching : TitleMatches(matching[k], title)

\* (mutation of NextYearVerdict: the registry flag is not consulted)
NextYearVerdict_NoFlag(has_next, is_next) == is_next

\* The branch of should_include_content taken for a next-year mention
NextYearVerdict(has_next, is_next) == has_next /\ is_next

\* The body of "for year in content_years", from position k on: every branch
\* returns, so the loop never reaches a second year
RECURSIVE YearLoop(_, _, _, _, _)
YearLoop(years, k, cy, has_next, is_next) ==
    IF k > Len(years) THEN TRUE
    ELSE LET year == years[k]
         IN  IF year < cy THEN FALSE
             ELSE IF year = cy THEN TRUE
             ELSE IF year = cy + 1 THEN NextYearVerdict(has_next, is_next)
             ELSE IF year > cy + 1 THEN FALSE
             ELSE YearLoop(years, k + 1, cy, has_next, is_next)

should_include_content(text, cy, title, has_next, matching) ==
    LET content_years == extract_year_from_text(text)
    IN  IF content_years = <<>> THEN TRUE
        ELSE YearLoop(content_years, 1, cy, has_next, IsNextYearSection(title, matching))

----------------------------------------------------------------------------
(* utils/content_generator.py *)

\* The warning sign (U+26A0, U+FE0F) that opens every placeholder string of
\* generate_section_content
WARN == "warn"
VS16 == "vs16"

\* A word of n letters of a placeholder message
Word(n) == [i \in 1..n |-> "k"]

\* The two placeholder messages, "OpenAI API key is not set." and "error
\* while generating content: {e}", with the lengths of their words
NoKeyPlaceholder ==
    <<WARN, VS16, SP>> \o Word(6) \o <<SP>> \o Word(3) \o <<SP>> \o Word(2) \o <<SP>>
        \o Word(4) \o <<SP>> \o Word(5) \o <<DOT>>
ErrorPlaceholder(e) ==
    <<WARN, VS16, SP>> \o Word(3) \o <<SP>> \o Word(2) \o <<SP>> \o Word(1) \o <<SP>>
        \o Word(3) \o <<SP>> \o Word(6) \o <<":", SP>> \o e

\* "target_section['content'][:1000]" of refine_single_section
PriorContentChars == 1000

\* count_tokens: the deterministic estimate len(text) // 4 of the except branch
TokenChars == 4
count_tokens(text) == Len(text) \div TokenChars

\* (mutation of GuardTrips: the guard waits for the whole budget)
GuardTrips_AtFull(current_tokens, limit) == current_tokens > limit

\* "current_tokens > MAX_TOKEN_LIMIT * 0.9"
GuardTrips(current_tokens, limit) == 10 * current_tokens > 9 * limit

\* Code points, for Python's comparison of strings
Ord(c) ==
    CASE c = NL -> 10 [] c = "\t" -> 9 [] c = SP -> 32 [] c = DASH -> 45 [] c = DOT -> 46
      [] c \in Digits -> 48 + DigitVal(c)
      [] c = EQ -> 61 [] c = "*" -> 42
      [] c = "A" -> 65 [] c = "B" -> 66 [] c = "C" -> 67
      [] c = "a" -> 97 [] c = "b" -> 98 [] c = "c" -> 99 [] c = "x" -> 120
      [] OTHER -> 44032

\* a < b on strings
RECURSIVE StrLess(_, _)
StrLess(a, b) ==
    IF b = <<>> THEN FALSE
    ELSE IF a = <<>> THEN TRUE
    ELSE IF Ord(a[1]) # Ord(b[1]) THEN Ord(a[1]) < Ord(b[1])
    ELSE StrLess(Tail(a), Tail(b))

\* (variant: the key is the number alone)
TocKeyLess_NumberOnly(a, b) == StrLess(a.number, b.number)

\* key(a) < key(b) for the key (level, number) of sorted_toc
TocKeyLess(a, b) ==
    a.level < b.level \/ (a.level = b.level /\ StrLess(a.number, b.number))

\* One insertion of the stable sort: x goes after every element whose key is
\* not greater
RECURSIVE InsertByKey(_, _)
InsertByKey(sorted, x) ==
    IF sorted = <<>> THEN <<x>>
    ELSE IF TocKeyLess(x, sorted[Len(sorted)])
         THEN InsertByKey(SubSeq(sorted, 1, Len(sorted) - 1), x) \o <<sorted[Len(sorted)]>>
         ELSE sorted \o <<x>>

\* sorted(table_of_contents, key=lambda x: (level, number))
RECURSIVE SortToc(_)
SortToc(toc) ==
    IF toc = <<>> THEN <<>>
    ELSE InsertByKey(SortToc(SubSeq(toc, 1, Len(toc) - 1)), toc[Len(toc)])

\* (mutation of SliceStart: the loop restarts from the first node)
SliceStart_FromZero(n, start_index) == 0

\* The 0-based positions that sorted_toc[start_index:] visits, as Python
\* slices: a negative start counts from the end
SliceStart(n, start_index) ==
    IF start_index >= 0 THEN (IF start_index > n THEN n ELSE start_index)
    ELSE (IF n + start_index < 0 THEN 0 ELSE n + start_index)

\* vector_db_manager.search_similar(query, n_results): the store's ranking is
\* opaque; it answers with its first n_results documents
search_similar(store, query, n_results) == Take(store, n_results)

\* "{source_content[:5000]}" of the user prompt of generate_section_content:
\* the part of the source content that is embedded in the generation request
SourceExcerptChars == 5000
SourceExcerpt(source_content) == Take(source_content, SourceExcerptChars)

\* (variant: the exception of the backend call reaches the caller)
generate_section_content_Uncaught(configured, reply) ==
    IF ~configured
    THEN [content |-> NoKeyPlaceholder, backend_calls |-> 0, raised |-> FALSE]
    ELSE IF reply.kind = "raise"
    THEN [content |-> reply.text, backend_calls |-> 1, raised |-> TRUE]
    ELSE [content |-> reply.text, backend_calls |-> 1, raised |-> FALSE]

\* generate_section_content: what it returns, how many calls of the backend
\* it made, and whether it raised.  reply is what the opaque generation call
\* does with this request: [kind |-> "text", text |-> t] or
\* [kind |-> "raise", text |-> e] (the prompts are built from a dict, a list
\* and strings and do not fail)
generate_section_content(configured, reply) ==
    IF ~configured
    THEN [content |-> NoKeyPlaceholder, backend_calls |-> 0, raised |-> FALSE]
    ELSE IF reply.kind = "raise"
    THEN [content |-> ErrorPlaceholder(reply.text), backend_calls |-> 1, raised |-> FALSE]
    ELSE [content |-> reply.text, backend_calls |-> 1, raised |-> FALSE]

\* header = f"{section_number}. {section_title}"
SectionHeader(number, title) == number \o <<DOT, SP>> \o title

\* (variant: a placeholder body is not written)
SectionItems_SkipsPlaceholder(header, section_content) ==
    IF StartsWith(section_content, <<WARN>>) THEN <<>>
    ELSE << header, Repeat(EQ, Len(header)), <<>>, section_content, <<>>, <<>> >>

\* The six list items one section appends to full_report
SectionItems(header, section_content) ==
    << header, Repeat(EQ, Len(header)), <<>>, section_content, <<>>, <<>> >>

\* previous_sections as rebuilt from existing_report
InitialPreviousSections(existing_report) ==
    IF existing_report = <<>> THEN <<>>
    ELSE LET sections == Split(existing_report, <<NL, NL, NL>>)
         IN  IF Len(sections) >= 3
             THEN SubSeq(sections, Len(sections) - 2, Len(sections))
             ELSE sections

\* (mutation of LoopStart: the accumulator is not seeded with existing_report)
LoopStart_DropsExisting(start_index, existing_report) ==
    [ full_report |-> <<>>,
      previous_sections |-> InitialPreviousSections(existing_report),
      completed_count |-> start_index,
      current_tokens |-> IF existing_report # <<>> THEN count_tokens(existing_report) ELSE 0,
      stopped |-> FALSE,
      events |-> <<>> ]

\* (mutation of LoopStart: completed_count does not start at start_index)
LoopStart_CountFromZero(start_index, existing_report) ==
    [ full_report |-> IF existing_report # <<>> THEN <<existing_report>> ELSE <<>>,
      previous_sections |-> InitialPreviousSections(existing_report),
      completed_count |-> 0,
      current_tokens |-> IF existing_report # <<>> THEN count_tokens(existing_report) ELSE 0,
      stopped |-> FALSE,
      events |-> <<>> ]

\* The state of generate_full_report before its loop
LoopStart(start_index, existing_report) ==
    [ full_report |-> IF existing_report # <<>> THEN <<existing_report>> ELSE <<>>,
      previous_sections |-> InitialPreviousSections(existing_report),
      completed_count |-> start_index,
      current_tokens |-> IF existing_report # <<>> THEN count_tokens(existing_report) ELSE 0,
      stopped |-> FALSE,
      events |-> <<>> ]

\* One iteration of the loop for the node at position pos of sorted_toc
\* (1-based).  events records what the iteration did: the token estimate it
\* saw, and the retrieval and generation calls it issued.
LoopBody(st, pos, section, env) ==
    IF GuardTrips(st.current_tokens, env.limit)
    THEN [st EXCEPT !.stopped = TRUE,
                    !.events = @ \o <<[kind |-> "stop", pos |-> pos,
                                       tokens |-> st.current_tokens]>>]
    ELSE LET search_query == section.number \o <<SP>> \o section.title
             similar_docs == search_similar(env.db_docs, search_query, 3)
             relevant_content ==
                 IF similar_docs # <<>> THEN Join(similar_docs, <<NL, NL>>)
                 ELSE env.source_content
             is_next_year_section ==
                 env.matching_sections # <<>>
                 /\ IsNextYearSection(section.title, env.matching_sections)
             passed_matching ==
                 IF is_next_year_section THEN env.matching_sections ELSE <<>>
             generated == generate_section_content(env.client_ok, env.backend[pos])
             section_content == generated.content
             header == SectionHeader(section.number, section.title)
         IN  [ full_report |-> st.full_report \o SectionItems(header, section_content),
               previous_sections |->
                   Append(st.previous_sections, header \o <<NL>> \o section_content),
               completed_count |-> st.completed_count + 1,
               current_tokens |->
                   st.current_tokens + count_tokens(Join(<<header, section_content>>, <<NL>>)),
               stopped |-> FALSE,
               events |-> st.events \o
                   <<[kind |-> "section", pos |-> pos, tokens |-> st.current_tokens,
                      query |-> search_query, n_results |-> 3,
                      title |-> section.title, level |-> section.level,
                      source |-> relevant_content,
                      previous |-> st.previous_sections,
                      matching |-> passed_matching,
                      backend_calls |-> generated.backend_calls,
                      raised |-> generated.raised,
                      content |-> section_content]>> ]

\* "for i, section in enumerate(sorted_toc[start_index:], start=start_index)":
\* k is the 1-based position in sorted_toc of the next node (the body never
\* reads i)
RECURSIVE RunLoop(_, _, _, _)
RunLoop(st, sorted_toc, k, env) ==
    IF st.stopped \/ k > Len(sorted_toc) THEN st
    ELSE RunLoop(LoopBody(st, k, sorted_toc[k], env), sorted_toc, k + 1, env)

\* generate_full_report: (report, completed_count, is_complete), and the
\* events of the call
generate_full_report(toc, start_index, existing_report, env) ==
    LET sorted_toc == SortToc(toc)
        total_sections == Len(sorted_toc)
        first == SliceStart(total_sections, start_index)
        st == RunLoop(LoopStart(start_index, existing_report), sorted_toc,
                      first + 1, env)
    IN  [ report |-> Join(st.full_report, <<NL>>),
          completed_count |-> st.completed_count,
          is_complete |-> IF st.stopped THEN FALSE
                          ELSE st.completed_count >= total_sections,
          events |-> st.events ]

----------------------------------------------------------------------------
(* utils/refinement.py *)

\* The section-header test of parse_report_sections on a stripped line
IsHeaderLine(line) ==
    /\ line # <<>>
    /\ \/ IsDigit(line[1])
       \/ /\ Len(line) > 2
          /\ SubSeq(line, 1, 2) \in { <<"1", DOT>>, <<"2", DOT>>, <<"3", DOT>>,
                                      <<"4", DOT>>, <<"5", DOT>> }

\* line.split('.', 1)
SplitFirstDot(line) ==
    IF \E i \in DOMAIN line : line[i] = DOT
    THEN LET i == CHOOSE i \in DOMAIN line :
                      line[i] = DOT /\ \A j \in 1..(i - 1) : line[j] # DOT
         IN  <<SubSeq(line, 1, i - 1), From(line, i + 1)>>
    ELSE <<line>>

\* The m-th smallest element of a set of numbers
Nth(S, m) == CHOOSE x \in S : Cardinality({ y \in S : y < x }) = m - 1

\* The elements of seq at the positions of set at, in order
Pick(seq, at) == Listed([m \in 1..Cardinality(at) |-> seq[Nth(at, m)]])

\* The largest element of a non-empty set of numbers
Last(S) == CHOOSE x \in S : \A y \in S : y <= x

\* parse_report_sections.  The state of "for line in lines" after each line is
\* given in closed form.  A header line with a dot starts a section; any
\* header line, and the end of the loop, saves the section that is current
\* (current_section is an object: a header line without a dot saves it and
\* leaves it current, so it is appended again later, and every copy in the
\* list shows the content of its last save); the lines that are not header
\* lines are the content of the section that is current.

\* line = line.strip(), for each line
StripEach(raw) == Listed([k \in DOMAIN raw |-> Strip(raw[k])])

\* The lines that pass the header test, and those of them that start a section
HeaderLines(lines) == { k \in DOMAIN lines : IsHeaderLine(lines[k]) }
StartLines(lines) ==
    { k \in DOMAIN lines : IsHeaderLine(lines[k]) /\ Len(SplitFirstDot(lines[k])) = 2 }

\* current_section after line k: the line that started it, 0 for None
CurrentAfter(Starts, k) ==
    IF \E s \in Starts : s <= k THEN Last({ s \in Starts : s <= k }) ELSE 0

\* The lines at which "if current_section:" holds and the section is saved:
\* header lines, and n + 1 for the save after the loop
SaveLines(n, Headers, Starts) ==
    { k \in Headers \cup {n + 1} : CurrentAfter(Starts, k - 1) # 0 }

\* The section started at line s, with current_content as its last save
\* found it
Section(lines, Headers, Starts, Saves, s) ==
    LET parts == SplitFirstDot(lines[s])
        last == Last({ k \in Saves : CurrentAfter(Starts, k - 1) = s })
    IN  [ number |-> Strip(parts[1]),
          title |-> Strip(parts[2]),
          content |-> Strip(Join(Pick(lines, { j \in (s + 1)..(last - 1) : j \notin Headers }),
                                 <<NL>>)) ]

\* sections: one entry for each save, in order
SavedSections(lines, Headers, Starts, Saves) ==
    Listed([ e \in 1..Cardinality(Saves) |->
               Section(lines, Headers, Starts, Saves,
                       CurrentAfter(Starts, Nth(Saves, e) - 1)) ])

ParseMarked(lines, Headers, Starts) ==
    SavedSections(lines, Headers, Starts, SaveLines(Len(lines), Headers, Starts))

ParseLines(lines) == ParseMarked(lines, HeaderLines(lines), StartLines(lines))

parse_report_sections(report) == ParseLines(StripEach(Split(report, <<NL>>)))

\* combine_sections
\* (variant: no blank line between the underline and the body)
CombinedItems_NoBlankLine(section) ==
    LET header == section.number \o <<DOT, SP>> \o section.title
    IN  << header, Repeat(EQ, Len(header)), section.content, <<>>, <<>> >>

\* The six items that "for section in sections" appends for a section
CombinedItems(section) ==
    LET header == section.number \o <<DOT, SP>> \o section.title
    IN  << header, Repeat(EQ, Len(header)), <<>>, section.content, <<>>, <<>> >>

RECURSIVE CombineParts(_)
CombineParts(sections) ==
    IF sections = <<>> THEN <<>>
    ELSE CombinedItems(sections[1]) \o CombineParts(Tail(sections))

combine_sections(sections) == Join(CombineParts(sections), <<NL>>)

\* str.lower() on the characters of the model
LowerChar(c) ==
    CASE c = "A" -> "a" [] c = "B" -> "b" [] c = "C" -> "c" [] OTHER -> c
Lower(text) == [i \in DOMAIN text |-> LowerChar(text[i])]

\* The nine section_patterns: a literal and \s* before the group, the number
\* of \d+ parts of the group, and a literal after it
SectionPatterns == <<
    [pre |-> <<>>, ws |-> FALSE, parts |-> 3, post |-> <<BEON>>],
    [pre |-> <<>>, ws |-> FALSE, parts |-> 2, post |-> <<BEON>>],
    [pre |-> <<>>, ws |-> FALSE, parts |-> 1, post |-> <<BEON>>],
    [pre |-> <<>>, ws |-> FALSE, parts |-> 3, post |-> <<BEON, JJAE>>],
    [pre |-> <<>>, ws |-> FALSE, parts |-> 2, post |-> <<BEON, JJAE>>],
    [pre |-> <<>>, ws |-> FALSE, parts |-> 1, post |-> <<BEON, JJAE>>],
    [pre |-> <<SEK, SYEON>>, ws |-> TRUE, parts |-> 3, post |-> <<>>],
    [pre |-> <<SEK, SYEON>>, ws |-> TRUE, parts |-> 2, post |-> <<>>],
    [pre |-> <<SEK, SYEON>>, ws |-> TRUE, parts |-> 1, post |-> <<>>] >>

\* The end (exclusive) of \d+(-\d+){parts-1} matched greedily at position i,
\* or 0.  (Giving back digits never helps: what follows a shortened run is a
\* digit, and every pattern continues with a non-digit or ends.)
RECURSIVE NumberEnd(_, _, _)
NumberEnd(text, i, parts) ==
    IF ~(i <= Len(text) /\ IsDigit(text[i])) THEN 0
    ELSE LET d == RunEnd(text, i, Digits)
         IN  IF parts = 1 THEN d
             ELSE IF d <= Len(text) /\ text[d] = DASH
                  THEN NumberEnd(text, d + 1, parts - 1)
                  ELSE 0

\* The group captured by a match of pat that starts at position i, or <<>>
\* when pat does not match there
SectionMatchAt(text, i, pat) ==
    IF ~OccursAt(text, pat.pre, i) THEN <<>>
    ELSE LET a == i + Len(pat.pre)
             g == IF pat.ws THEN RunEnd(text, a, Whitespace) ELSE a
             e == NumberEnd(text, g, pat.parts)
         IN  IF e # 0 /\ OccursAt(text, pat.post, e) THEN SubSeq(text, g, e - 1)
             ELSE <<>>

\* re.search(pattern, request).group(1): the leftmost match, <<>> for None
SectionSearch(text, pat) ==
    LET hits == { i \in DOMAIN text : SectionMatchAt(text, i, pat) # <<>> }
    IN  IF hits = {} THEN <<>>
        ELSE SectionMatchAt(text, CHOOSE i \in hits : \A j \in hits : i <= j, pat)

\* "for pattern in section_patterns: ... break": the first pattern that
\* matches decides target_section (<<>> is None)
TargetSection(request) ==
    LET matching == { p \in DOMAIN SectionPatterns :
                        SectionSearch(request, SectionPatterns[p]) # <<>> }
    IN  IF matching = {} THEN <<>>
        ELSE SectionSearch(request,
                           SectionPatterns[CHOOSE p \in matching : \A q \in matching : p <= q])

\* The markers of the whole-scope and of the additive intent
WholeMarkers == { <<JEON, CHE>>, <<MO, DU>>, <<DA, SI>> }
AddMarkers == { <<CHU, GA>>, <<DEO>>, <<BO, WAN>> }

\* (variant: the section reference is looked at before the whole-scope marker)
analyze_modification_request_TargetFirst(request) ==
    LET request_lower == Lower(request)
        target_section == TargetSection(request)
    IN  IF target_section # <<>>
        THEN [type |-> "specific_section", target |-> target_section]
        ELSE IF \E m \in WholeMarkers : Contains(request_lower, m)
        THEN [type |-> "regenerate_all", target |-> <<>>]
        ELSE IF \E m \in AddMarkers : Contains(request_lower, m)
        THEN [type |-> "add_content", target |-> <<>>]
        ELSE [type |-> "general", target |-> <<>>]

\* analyze_modification_request: (request type, target section); the third
\* component of the tuple is the request itself
analyze_modification_request(request) ==
    LET request_lower == Lower(request)
        target_section == TargetSection(request)
    IN  IF \E m \in WholeMarkers : Contains(request_lower, m)
        THEN [type |-> "regenerate_all", target |-> <<>>]
        ELSE IF target_section # <<>>
        THEN [type |-> "specific_section", target |-> target_section]
        ELSE IF \E m \in AddMarkers : Contains(request_lower, m)
        THEN [type |-> "add_content", target |-> <<>>]
        ELSE [type |-> "general", target |-> <<>>]

\* The position of the first section whose number is the wanted one, or 0
FirstWithNumber(sections, number) ==
    IF \E k \in DOMAIN sections : sections[k].number = number
    THEN CHOOSE k \in DOMAIN sections :
             /\ sections[k].number = number
             /\ \A j \in 1..(k - 1) : sections[j].number # number
    ELSE 0

\* refine_single_section: the record it returns and the events of its
\* retrieval and generation calls.  reply is what the backend does with the
\* request.  [none |-> TRUE] stands for the {} returned for an empty list.
refine_single_section(section_number, sections, modification_request, toc, env, reply) ==
    LET t == FirstWithNumber(sections, section_number)
    IN  IF t = 0
        THEN [ section |-> IF sections # <<>> THEN sections[1] ELSE [none |-> TRUE],
               events |-> <<>> ]
        ELSE LET target_section == sections[t]
                 i == FirstWithNumber(toc, section_number)
                 info_title == IF i # 0 THEN toc[i].title ELSE target_section.title
                 info_level == IF i # 0 THEN toc[i].level ELSE 1
                 search_query == section_number \o <<SP>> \o info_title \o <<SP>>
                                     \o modification_request
                 similar_docs == search_similar(env.db_docs, search_query, 5)
                 relevant_content ==
                     IF similar_docs # <<>> THEN Join(similar_docs, <<NL, NL>>)
                     ELSE env.source_content
                 is_next_year_section ==
                     env.matching_sections # <<>>
                     /\ IsNextYearSection(info_title, env.matching_sections)
                 enhanced_content ==
                     relevant_content \o <<NL, NL, "[">> \o Word(2) \o <<SP>> \o Word(2)
                         \o <<":", SP>> \o modification_request \o <<"]", NL, NL, "[">>
                         \o Word(2) \o <<SP>> \o Word(2) \o <<SP>> \o Word(2) \o <<":", SP>>
                         \o Take(target_section.content, PriorContentChars) \o <<"]">>
                 generated == generate_section_content(env.client_ok, reply)
                 refined_content == generated.content
             IN  [ section |-> [number |-> section_number,
                                title |-> info_title,
                                content |-> refined_content],
                   events |-> <<[kind |-> "section", query |-> search_query, n_results |-> 5,
                                 title |-> info_title, level |-> info_level,
                                 source |-> enhanced_content,
                                 previous |-> <<target_section.content>>,
                                 matching |-> IF is_next_year_section
                                              THEN env.matching_sections ELSE <<>>,
                                 backend_calls |-> generated.backend_calls,
                                 raised |-> generated.raised,
                                 content |-> refined_content]>> ]

\* add_content_to_sections
add_content_to_sections(sections, modification_request) == sections

\* regenerate_report_with_modifications: generate_full_report with its default
\* start_index and existing_report
regenerate_report_with_modifications(toc, modification_request, env) ==
    generate_full_report(toc, 0, <<>>, env)

\* (variant: the regeneration continues from the current report)
RegenerateAll_FromCurrent(current_report, modification_request, toc, env) ==
    generate_full_report(toc, 0, current_report, env)

\* The regenerate_all branch of refine_report_with_request: the current report
\* is not among the arguments it passes on
RegenerateAll(current_report, modification_request, toc, env) ==
    regenerate_report_with_modifications(toc, modification_request, env)

\* (variant: the modified section takes the place of the first record)
ReplaceFirst_AtHead(sections, number, modified_section) ==
    IF FirstWithNumber(sections, number) # 0
    THEN [sections EXCEPT ![1] = modified_section] ELSE sections

\* "for i, section_data in enumerate(sections)": the first record with the
\* number is replaced, if there is one
ReplaceFirst(sections, number, modified_section) ==
    LET t == FirstWithNumber(sections, number)
    IN  IF t # 0 THEN [sections EXCEPT ![t] = modified_section] ELSE sections

\* What refine_report_with_request returns, with the request type, the
\* section list at the return, and the events of its calls
Refined(a, sections, report, events) ==
    [type |-> a.type, target |-> a.target, sections |-> sections,
     report |-> report, events |-> events]

\* The specific_section branch, given what refine_single_section returned
SpliceSection(sections, a, r) ==
    Refined(a, ReplaceFirst(sections, a.target, r.section), <<>>, r.events)

\* The report of combine_sections for the section list of r
Flattened(r) == [r EXCEPT !.report = combine_sections(r.sections)]

\* The dispatch of refine_report_with_request on the request type, given the
\* parsed sections and the analysis a of the request
RefineSections(sections, a, current_report, modification_request, toc, env, reply) ==
    IF a.type = "specific_section"
    THEN Flattened(SpliceSection(sections, a,
                       refine_single_section(a.target, sections, modification_request,
                                             toc, env, reply)))
    ELSE IF a.type = "add_content"
    THEN Flattened(Refined(a, add_content_to_sections(sections, modification_request),
                           <<>>, <<>>))
    ELSE IF a.type = "regenerate_all"
    THEN LET g == RegenerateAll(current_report, modification_request, toc, env)
         IN  Refined(a, sections, g.report, g.events)
    ELSE Flattened(Refined(a, sections, <<>>, <<>>))

\* refine_report_with_request: the report it returns, the request type, and
\* the events of the retrieval and generation calls it issued
refine_report_with_request(current_report, modification_request, toc, env, reply) ==
    RefineSections(parse_report_sections(current_report),
                   analyze_modification_request(modification_request),
                   current_report, modification_request, toc, env, reply)

----------------------------------------------------------------------------
(* app.py: the TOC editor *)

\* str(n) for n >= 0
DigitChar(d) == CHOOSE c \in Digits : DigitVal(c) = d

RECURSIVE Str(_)
Str(n) == IF n < 10 THEN <<DigitChar(n)>> ELSE Str(n \div 10) \o <<DigitChar(n % 10)>>

\* int(s) succeeds (for the strings of digits, dashes and letters of the
\* model: on a non-empty string of digits)
IsInt(s) == s # <<>> /\ \A i \in DOMAIN s : IsDigit(s[i])

\* "max_num = 0; for ...: max_num = max(max_num, num)" over the numbers nums
MaxNum(nums) == IF nums = {} THEN 0 ELSE Last(nums \cup {0})

\* The dict that add_section appends (word_count and emphasis, which no
\* other function of the model reads, are left out)
NewSection(number, level) == [number |-> number, title |-> <<>>, level |-> level]

\* The numbers that the loop of add_section takes the maximum of, for each
\* level
SiblingNumbers(toc, parent_number, level) ==
    IF level = 1
    THEN { ParseInt(Split(toc[k].number, <<DASH>>)[1]) :
             k \in { j \in DOMAIN toc : toc[j].level = 1 } }
    ELSE IF level = 2
    THEN { ParseInt(Split(toc[k].number, <<DASH>>)[2]) :
             k \in { j \in DOMAIN toc :
                       /\ toc[j].level = 2
                       /\ StartsWith(toc[j].number,
                                     Split(parent_number, <<DASH>>)[1] \o <<DASH>>) } }
    ELSE { ParseInt(Split(toc[k].number, <<DASH>>)[3]) :
             k \in { j \in DOMAIN toc :
                       /\ toc[j].level = 3
                       /\ StartsWith(toc[j].number, parent_number \o <<DASH>>)
                       /\ Len(Split(toc[j].number, <<DASH>>)) >= 3 } }

\* (variant: the new number is the number of siblings plus one)
NextNumber_ByCount(toc, parent_number, level) ==
    LET next == Str(Cardinality(SiblingNumbers(toc, parent_number, level)) + 1)
    IN  IF level = 1 THEN next
        ELSE IF level = 2 THEN Split(parent_number, <<DASH>>)[1] \o <<DASH>> \o next
        ELSE parent_number \o <<DASH>> \o next

\* new_number of add_section
NextNumber(toc, parent_number, level) ==
    LET next == Str(MaxNum(SiblingNumbers(toc, parent_number, level)) + 1)
    IN  IF level = 1 THEN next
        ELSE IF level = 2 THEN Split(parent_number, <<DASH>>)[1] \o <<DASH>> \o next
        ELSE parent_number \o <<DASH>> \o next

\* add_section: the TOC of the session after the call (a level-3 add under
\* a parent number with fewer than two segments returns without appending)
add_section(toc, parent_number, level) ==
    IF level \notin {1, 2} /\ Len(Split(parent_number, <<DASH>>)) < 2 THEN toc
    ELSE Append(toc, NewSection(NextNumber(toc, parent_number, level), level))

\* (variant: a number that begins with the deleted number is a descendant)
IsDescendant_NoDash(number, deleted_number) == StartsWith(number, deleted_number)

\* "s['number'].startswith(deleted_number + '-')"
IsDescendant(number, deleted_number) == StartsWith(number, deleted_number \o <<DASH>>)

\* A deletion that pops the node at the index and keeps its descendants
delete_section_NoCascade(toc, index) ==
    IF 0 <= index /\ index < Len(toc)
    THEN Pick(toc, { k \in DOMAIN toc : k # index + 1 })
    ELSE toc

\* delete_section: the TOC of the session after the call, for a 0-based index
delete_section(toc, index) ==
    IF 0 <= index /\ index < Len(toc)
    THEN LET deleted_number == toc[index + 1].number
         IN  Pick(toc, { k \in DOMAIN toc :
                           /\ k # index + 1
                           /\ ~IsDescendant(toc[k].number, deleted_number) })
    ELSE toc

\* number_to_list of sort_toc_by_hierarchy: the except branch gives [0]
number_to_list(number_str) ==
    LET parts == Split(number_str, <<DASH>>)
    IN  IF \A k \in DOMAIN parts : IsInt(parts[k])
        THEN Listed([k \in DOMAIN parts |-> ParseInt(parts[k])])
        ELSE <<0>>

\* a < b on lists of integers
RECURSIVE ListLess(_, _)
ListLess(a, b) ==
    IF b = <<>> THEN FALSE
    ELSE IF a = <<>> THEN TRUE
    ELSE IF a[1] # b[1] THEN a[1] < b[1]
    ELSE ListLess(Tail(a), Tail(b))

\* (variant: the numbers are compared as strings)
HierarchyLess_AsString(x, y) == StrLess(x.number, y.number)

\* key(x) < key(y) for the key of sort_toc_by_hierarchy
HierarchyLess(x, y) == ListLess(number_to_list(x.number), number_to_list(y.number))

\* One insertion of the stable sort: x goes after every element whose key is
\* not greater
RECURSIVE InsertByHierarchy(_, _)
InsertByHierarchy(sorted, x) ==
    IF sorted = <<>> THEN <<x>>
    ELSE IF HierarchyLess(x, sorted[Len(sorted)])
         THEN InsertByHierarchy(SubSeq(sorted, 1, Len(sorted) - 1), x)
                  \o <<sorted[Len(sorted)]>>
         ELSE sorted \o <<x>>

\* sort_toc_by_hierarchy
RECURSIVE sort_toc_by_hierarchy(_)
sort_toc_by_hierarchy(toc) ==
    IF toc = <<>> THEN <<>>
    ELSE InsertByHierarchy(sort_toc_by_hierarchy(SubSeq(toc, 1, Len(toc) - 1)), toc[Len(toc)])

\* A dict with value stored under key
DictPut(d, key, value) ==
    [ x \in (DOMAIN d) \cup {key} |-> IF x = key THEN value ELSE d[x] ]

\* "if parent_number not in counters: counters[parent_number] = 0" and
\* "counters[parent_number] += 1"
DictBump(d, key) == DictPut(d, key, (IF key \in DOMAIN d THEN d[key] ELSE 0) + 1)

\* "for prev_section in reversed(renumbered): if prev_section.get('level', 1)
\* == level: parent_number = prev_section.get('number', ''); break": the list
\* of the number found, empty for None
NearestOfLevel(renumbered, level) ==
    LET at == { j \in DOMAIN renumbered : renumbered[j].level = level }
    IN  IF at = {} THEN <<>> ELSE <<renumbered[Last(at)].number>>

\* The state of the walk of renumber_toc_by_hierarchy before its first
\* section; new_number is not bound yet
UNBOUND == <<"unbound">>
RenumberStart ==
    [ renumbered |-> <<>>,
      level1_counter |-> 0,
      level2_counters |-> <<>>,
      level3_counters |-> <<>>,
      new_number |-> UNBOUND,
      raised |-> FALSE ]

\* The end of an iteration: "new_section['number'] = new_number" and
\* "renumbered.append(new_section)"
RenumberAppend(st, section, new_number, level1_counter, level2_counters, level3_counters) ==
    [ renumbered |-> Append(st.renumbered, [section EXCEPT !.number = new_number]),
      level1_counter |-> level1_counter,
      level2_counters |-> level2_counters,
      level3_counters |-> level3_counters,
      new_number |-> new_number,
      raised |-> FALSE ]

\* "if level == 1"
RenumberLevel1(st, section, counter) ==
    RenumberAppend(st, section, Str(counter), counter,
                   DictPut(st.level2_counters, Str(counter), 0), st.level3_counters)

\* "elif level == 2", for the parent_number found or fallen back to and the
\* counters after the increment
RenumberUnder2(st, section, parent_number, counters) ==
    RenumberAppend(st, section, parent_number \o <<DASH>> \o Str(counters[parent_number]),
                   st.level1_counter, counters,
                   DictPut(st.level3_counters,
                           parent_number \o <<DASH>> \o Str(counters[parent_number]), 0))

\* (variant: one counter for the level-2 nodes of all parents)
RenumberLevel2_OneCounter(st, section, found) ==
    RenumberUnder2(st, section, IF found = <<>> THEN Str(st.level1_counter) ELSE found[1],
                   DictPut(st.level2_counters,
                           IF found = <<>> THEN Str(st.level1_counter) ELSE found[1],
                           1 + Cardinality({ j \in DOMAIN st.renumbered :
                                               st.renumbered[j].level = 2 })))

RenumberLevel2(st, section, found) ==
    IF found = <<>>
    THEN RenumberUnder2(st, section, Str(st.level1_counter),
                        DictBump(st.level2_counters, Str(st.level1_counter)))
    ELSE RenumberUnder2(st, section, found[1], DictBump(st.level2_counters, found[1]))

\* "elif level == 3"
RenumberUnder3(st, section, parent_number, counters) ==
    RenumberAppend(st, section, parent_number \o <<DASH>> \o Str(counters[parent_number]),
                   st.level1_counter, st.level2_counters, counters)

\* (variant: a level-3 node without a level-2 node before it is numbered
\* under the level-1 counter like the others)
RenumberLevel3_NoFallback(st, section, found) ==
    IF found = <<>>
    THEN RenumberUnder3(st, section, Str(st.level1_counter),
                        DictBump(st.level3_counters, Str(st.level1_counter)))
    ELSE RenumberUnder3(st, section, found[1], DictBump(st.level3_counters, found[1]))

RenumberLevel3(st, section, found) ==
    IF found = <<>>
    THEN RenumberAppend(st, section, section.number, st.level1_counter,
                        st.level2_counters, st.level3_counters)
    ELSE RenumberUnder3(st, section, found[1], DictBump(st.level3_counters, found[1]))

\* One iteration of "for section in sorted_toc".  No branch binds new_number
\* for a level other than 1, 2 and 3: the name keeps the value of the
\* iteration before, and is unbound in the first.
RenumberStep(st, section) ==
    IF st.raised THEN st
    ELSE IF section.level = 1 THEN RenumberLevel1(st, section, st.level1_counter + 1)
    ELSE IF section.level = 2
         THEN RenumberLevel2(st, section, NearestOfLevel(st.renumbered, 1))
    ELSE IF section.level = 3
         THEN RenumberLevel3(st, section, NearestOfLevel(st.renumbered, 2))
    ELSE IF st.new_number = UNBOUND THEN [st EXCEPT !.raised = TRUE]
    ELSE RenumberAppend(st, section, st.new_number, st.level1_counter,
                        st.level2_counters, st.level3_counters)

RECURSIVE RenumberWalk(_, _)
RenumberWalk(sorted_toc, k) ==
    IF k = 0 THEN RenumberStart
    ELSE RenumberStep(RenumberWalk(sorted_toc, k - 1), sorted_toc[k])

\* (variant: the sections are walked in the order of the input)
RenumberSorted_Unsorted(toc) == toc

\* "sorted_toc = sort_toc_by_hierarchy(table_of_contents)"
RenumberSorted(toc) == sort_toc_by_hierarchy(toc)

\* renumber_toc_by_hierarchy: the list returned, and whether the call raised
RenumberOf(sorted_toc) == RenumberWalk(sorted_toc, Len(sorted_toc))

renumber_toc_by_hierarchy(toc) ==
    IF toc = <<>> THEN <<>> ELSE RenumberOf(RenumberSorted(toc)).renumbered

----------------------------------------------------------------------------
(* app.py: main, one run of the script at a time *)

\* What the generation block of the last run did: nothing, a pass that
\* returned, or a pass that raised; with the report and the index it found
NoPass == [outcome |-> "none", report_before |-> <<>>, index_before |-> 0]

\* The session before any button: report_generation_progress, is_refining,
\* the last entry of refinement_chat_history; whether the run ended in
\* st.rerun(); the number of runs so far
NoSession ==
    [ current_section_index |-> 0,
      total_sections |-> 0,
      is_generating |-> FALSE,
      is_refining |-> FALSE,
      latest_request |-> <<>>,
      rerun |-> FALSE,
      runs |-> 0,
      pass |-> NoPass ]

\* The script begins: the world is the session, the stored report, and
\* whether the run has ended
RunBegins(s, report) ==
    [ session |-> [s EXCEPT !.rerun = FALSE, !.runs = s.runs + 1, !.pass = NoPass],
      report |-> report,
      ended |-> FALSE ]

\* "if not progress['is_generating']: if st.button(...)": the progress is
\* reset, the report emptied, and the script run again
StartButton(w, event, toc, env) ==
    IF ~w.session.is_generating /\ event = "start" /\ env.client_ok
    THEN [ session |-> [w.session EXCEPT !.current_section_index = 0,
                                         !.total_sections = Len(toc),
                                         !.is_generating = TRUE,
                                         !.rerun = TRUE],
           report |-> <<>>,
           ended |-> TRUE ]
    ELSE w

\* The pass returned r: the report and the index are stored; a complete pass
\* ends the generation and the run
PassReturned(w, r) ==
    [ session |-> [w.session EXCEPT
                      !.current_section_index = r.completed_count,
                      !.is_generating = ~r.is_complete,
                      !.rerun = r.is_complete,
                      !.pass = [outcome |-> "returned", report_before |-> w.report,
                                index_before |-> w.session.current_section_index]],
      report |-> r.report,
      ended |-> r.is_complete ]

\* "except Exception as e": is_generating is cleared and the script run again
PassRaised(w) ==
    [ session |-> [w.session EXCEPT
                      !.is_generating = FALSE,
                      !.rerun = TRUE,
                      !.pass = [outcome |-> "raised", report_before |-> w.report,
                                index_before |-> w.session.current_section_index]],
      report |-> w.report,
      ended |-> TRUE ]

\* "if progress['is_generating']": generate_full_report from the stored index
\* and report
GenerationBlock(w, toc, env, raises) ==
    IF w.ended \/ ~w.session.is_generating THEN w
    ELSE IF raises THEN PassRaised(w)
    ELSE PassReturned(w, generate_full_report(toc, w.session.current_section_index,
                                              w.report, env))

\* The button below an incomplete pass
ContinueButton(w, event) ==
    IF /\ ~w.ended
       /\ w.session.is_generating
       /\ w.session.current_section_index < w.session.total_sections
       /\ event = "continue"
    THEN [w EXCEPT !.session.rerun = TRUE, !.ended = TRUE]
    ELSE w

\* The button that applies a modification request, below the report
ModifyButton(w, event, request) ==
    IF ~w.ended /\ w.report # <<>> /\ event = "modify" /\ Strip(request) # <<>>
    THEN [w EXCEPT !.session.is_refining = TRUE,
                   !.session.latest_request = request,
                   !.session.rerun = TRUE,
                   !.ended = TRUE]
    ELSE w

\* "if st.session_state.is_refining and ...refinement_chat_history": the
\* latest request is applied to the stored report
RefineBlock(w, toc, env, reply, raises) ==
    IF w.ended \/ w.report = <<>> \/ ~w.session.is_refining THEN w
    ELSE [ session |-> [w.session EXCEPT !.is_refining = FALSE, !.rerun = TRUE],
           report |-> IF raises THEN w.report
                      ELSE refine_report_with_request(w.report, w.session.latest_request,
                                                      toc, env, reply).report,
           ended |-> TRUE ]

\* One run of the script, for the widget the user touched
ScriptRun(s, report, event, request, toc, env, reply, pass_raises, refine_raises) ==
    RefineBlock(
        ModifyButton(
            ContinueButton(
                GenerationBlock(StartButton(RunBegins(s, report), event, toc, env),
                                toc, env, pass_raises),
                event),
            event, request),
        toc, env, reply, refine_raises)

----------------------------------------------------------------------------
(* Inputs of the model *)

TitleA == <<"A">>
TitleB == <<"B">>
\* "next-year plan", and a longer title that contains it
TitlePlan == <<CHA, NYEON, DO, GYE, HOEK>>
TitlePlanLong == <<"3">> \o TitlePlan
TitleEmpty == <<>>

\* Bounds
MaxMentions == 2
MaxYear == 3
MaxToc == 3

\* The pieces a content text is made of: year mentions in each pattern's
\* shape, out-of-range numbers, and text without a year
YearFragments ==
    { <<"x">>, <<"1">>, <<"1", CHA, NYEON, DO>>, <<"2", CHA, NYEON, DO>>, <<"3", CHA>>,
      <<"4", NYEON, CHA>>, <<"2", CHA, SP, NYEON, DO>>, <<"0", CHA>>, <<"5", CHA, NYEON, DO>> }

RECURSIVE TextsUpTo(_)
TextsUpTo(n) ==
    IF n = 0 THEN {<<>>}
    ELSE LET shorter == TextsUpTo(n - 1)
         IN  shorter \cup { t \o f : t \in shorter, f \in YearFragments }

ContentTexts == TextsUpTo(MaxMentions)
SectionTitles == {TitleA, TitlePlan, TitlePlanLong, TitleEmpty}
MatchingChoices == {<<>>, <<TitlePlan>>, <<TitlePlanLong>>, <<TitleB, TitlePlan>>}

\* TOC nodes: two top-level sections, a next-year plan section, a child, and
\* an untitled draft numbered 10 (which sorts before 2 as a string)
Node(number, title, level) == [number |-> number, title |-> title, level |-> level]
NodePool ==
    { Node(<<"1">>, TitleA, 1),
      Node(<<"2">>, TitlePlan, 1),
      Node(<<"1", DASH, "1">>, TitleB, 2),
      Node(<<"1", "0">>, TitleEmpty, 1) }

\* The TOCs: up to MaxToc distinct nodes, in any order
RECURSIVE TocsUpTo(_)
TocsUpTo(n) ==
    IF n = 0 THEN {<<>>}
    ELSE LET shorter == TocsUpTo(n - 1)
         IN  shorter \cup
             UNION { { Append(t, x) : x \in NodePool \ { t[k] : k \in DOMAIN t } } :
                       t \in { u \in shorter : Len(u) = n - 1 } }

Tocs == TocsUpTo(MaxToc)

\* Budgets (MAX_TOKEN_LIMIT is read from the environment): one that a single
\* section exhausts, one that a few sections exhaust, one that none does
Limits == {1, 4, 100}

\* What the backend answers: a short body, a long body, or an exception
BodyShort == <<"*", "a">>
BodyLong == <<"*", "b", "b", "b", "b", "b", "b", "b", "b", "b", "b">>
ReplyShort == [kind |-> "text", text |-> BodyShort]
ReplyLong == [kind |-> "text", text |-> BodyLong]
ReplyRaise == [kind |-> "raise", text |-> <<"x">>]

\* The backends: the reply to the request for each node of sorted_toc
Backends ==
    { [k \in 1..MaxToc |-> ReplyShort],
      [k \in 1..MaxToc |-> ReplyLong],
      [k \in 1..MaxToc |-> IF k % 2 = 1 THEN ReplyShort ELSE ReplyRaise] }

\* A configured client with each backend, and a process without an API key
BackendConfigs ==
    { [client_ok |-> TRUE, backend |-> b] : b \in Backends }
        \cup { [client_ok |-> FALSE, backend |-> [k \in 1..MaxToc |-> ReplyShort]] }

SourceText == <<"s", "r", "c">>
DocText == <<"d", "o", "c">>
DbChoices == {<<>>, <<DocText>>}

\* Arguments of a call with arbitrary arguments
StartIndexes == (-1)..(MaxToc + 1)
ExistingReports ==
    { <<>>, <<"x">>,
      <<"p", NL, NL, NL, "q", NL, NL, NL, "r", NL, NL, NL, "s", NL, NL>> }

\* The eligibility contexts a generation pass is given
LoopContexts ==
    { [has_next |-> FALSE, matching |-> <<>>],
      [has_next |-> TRUE, matching |-> <<TitlePlan>>],
      [has_next |-> TRUE, matching |-> <<TitleB, TitlePlanLong>>] }

NoValue == "none"
\* No call of generate_full_report yet
NoCall == [made |-> FALSE]

YearIdle ==
    /\ content_text = <<>>
    /\ section_title = <<>>
    /\ include_result = NoValue

LoopIdle ==
    /\ table_of_contents = <<>>
    /\ max_token_limit = 0
    /\ db_docs = <<>>
    /\ backend = <<>>
    /\ client_ok = TRUE
    /\ last_call = NoCall
    /\ prev_call = NoCall

\* No call of analyze_modification_request yet
NoIntent == [type |-> "none", target |-> <<>>]

\* No call of add_section or delete_section yet
NoEdit == [op |-> "none", count |-> 0]

EditIdle ==
    /\ last_edit = NoEdit
    /\ display_toc = <<>>
    /\ session = NoSession

RefineIdle ==
    /\ sections_in = <<>>
    /\ flat_text = <<>>
    /\ sections_out = <<>>
    /\ request_input = <<>>
    /\ intent = NoIntent
    /\ generated_report = <<>>
    /\ last_refine = NoCall

----------------------------------------------------------------------------
(* Specification SpecYear: should_include_content applied to its arguments *)

YearInit ==
    /\ pc = "ready"
    /\ content_text \in ContentTexts
    /\ section_title \in SectionTitles
    /\ current_year \in 1..MaxYear
    /\ has_next_year_section \in BOOLEAN
    /\ matching_sections \in MatchingChoices
    /\ include_result = NoValue
    /\ LoopIdle
    /\ RefineIdle
    /\ EditIdle

Evaluate ==
    /\ pc = "ready"
    /\ include_result' = should_include_content(content_text, current_year, section_title,
                                                has_next_year_section, matching_sections)
    /\ pc' = "done"
    /\ UNCHANGED <<content_text, section_title, ctxVars, loopVars, refineVars, editVars, session>>

YearNext == Evaluate

SpecYear == YearInit /\ [][YearNext]_vars

----------------------------------------------------------------------------
(* Year eligibility: claims C5 and C6 *)

\* The years detected in the evaluated span
DetectedYears == extract_year_from_text(content_text)

\* The section title and some matching title contain one another
TitleInRegistry ==
    \E k \in DOMAIN matching_sections :
        \/ Contains(section_title, matching_sections[k])
        \/ Contains(matching_sections[k], section_title)

\* The single-year rule of the specification for content year y
YearEligible(y) ==
    \/ y = current_year
    \/ y = current_year + 1 /\ has_next_year_section /\ TitleInRegistry

\* C5: a span with exactly one detected year y is eligible iff y is the
\* current year, or y is the next year and has_next_year_section holds and the
\* section title matches a registered title by containment in either direction;
\* a past year and a year beyond the next are ineligible.
C5_SingleYearEligibility ==
    (pc = "done" /\ Len(DetectedYears) = 1)
        => include_result = YearEligible(DetectedYears[1])

\* A next-year span admitted inside a next-year section ...
C5_Witness ==
    /\ pc = "done"
    /\ DetectedYears = <<current_year + 1>>
    /\ has_next_year_section
    /\ section_title = TitlePlanLong
    /\ matching_sections = <<TitlePlan>>
    /\ include_result = TRUE

\* C6: a span with several detected years is eligible only if every detected
\* year passes the single-year rule; one disqualifying year vetoes the span.
C6_MultiYearVeto ==
    (pc = "done" /\ Len(DetectedYears) >= 2 /\ include_result = TRUE)
        => \A k \in DOMAIN DetectedYears : YearEligible(DetectedYears[k])

----------------------------------------------------------------------------
(* Specification SpecLoop: calls of generate_full_report *)

\* The environment of a call
CallEnv ==
    [ limit |-> max_token_limit,
      db_docs |-> db_docs,
      source_content |-> SourceText,
      matching_sections |-> matching_sections,
      client_ok |-> client_ok,
      backend |-> backend ]

\* A call of generate_full_report with its arguments, result and events
CallRecord(start_index, existing_report) ==
    LET r == generate_full_report(table_of_contents, start_index, existing_report, CallEnv)
    IN  [ made |-> TRUE,
          start_index |-> start_index,
          existing_report |-> existing_report,
          limit |-> max_token_limit,
          report |-> r.report,
          completed_count |-> r.completed_count,
          is_complete |-> r.is_complete,
          events |-> r.events ]

LoopInit ==
    /\ pc = "NOT_STARTED"
    /\ table_of_contents \in Tocs
    /\ max_token_limit \in Limits
    /\ db_docs \in DbChoices
    /\ \E b \in BackendConfigs :
        /\ backend = b.backend
        /\ client_ok = b.client_ok
    /\ current_year = 2
    /\ \E c \in LoopContexts :
        /\ has_next_year_section = c.has_next
        /\ matching_sections = c.matching
    /\ last_call = NoCall
    /\ prev_call = NoCall
    /\ YearIdle
    /\ RefineIdle
    /\ EditIdle

\* The caller starts a pass from scratch
StartGeneration ==
    /\ pc # "PAUSED"
    /\ last_call' = CallRecord(0, <<>>)
    /\ prev_call' = NoCall
    /\ pc' = IF last_call'.is_complete THEN "COMPLETE" ELSE "PAUSED"
    /\ UNCHANGED <<table_of_contents, max_token_limit, db_docs, backend, client_ok,
                   yearVars, ctxVars, refineVars, editVars, session>>

\* The caller resumes a pass that returned is_complete = false
ResumeGeneration ==
    /\ pc = "PAUSED"
    /\ last_call' = CallRecord(last_call.completed_count, last_call.report)
    /\ prev_call' = last_call
    /\ pc' = IF last_call'.is_complete THEN "COMPLETE" ELSE "PAUSED"
    /\ UNCHANGED <<table_of_contents, max_token_limit, db_docs, backend, client_ok,
                   yearVars, ctxVars, refineVars, editVars, session>>

\* generate_full_report called with any start_index and existing_report
CallWithArguments ==
    /\ pc = "NOT_STARTED"
    /\ \E start_index \in StartIndexes, existing_report \in ExistingReports :
           last_call' = CallRecord(start_index, existing_report)
    /\ prev_call' = NoCall
    /\ pc' = IF last_call'.is_complete THEN "COMPLETE" ELSE "PAUSED"
    /\ UNCHANGED <<table_of_contents, max_token_limit, db_docs, backend, client_ok,
                   yearVars, ctxVars, refineVars, editVars, session>>

LoopNext == StartGeneration \/ ResumeGeneration \/ CallWithArguments

SpecLoop == LoopInit /\ [][LoopNext]_vars

----------------------------------------------------------------------------
(* Specification SpecResume: a pass, its resumptions, and a budget that the  *)
(* environment may set differently between calls                             *)

\* MAX_TOKEN_LIMIT is read from the environment when the module is loaded:
\* the next call may run under another budget
SetTokenLimit ==
    /\ \E limit \in Limits \ {max_token_limit} : max_token_limit' = limit
    /\ UNCHANGED <<pc, table_of_contents, db_docs, backend, client_ok, last_call, prev_call,
                   yearVars, ctxVars, refineVars, editVars, session>>

ResumeNext == StartGeneration \/ ResumeGeneration \/ SetTokenLimit

SpecResume == LoopInit /\ [][ResumeNext]_vars

----------------------------------------------------------------------------
(* Assembly loop: claims C1, C3 and C4 *)

\* The text of one section block: header, underline of the header's length,
\* blank line, body, two blank lines
BlockText(node, body) ==
    LET h == node.number \o <<".", " ">> \o node.title
    IN  h \o <<NL>> \o [i \in 1..Len(h) |-> "="] \o <<NL, NL>> \o body \o <<NL, NL>>

\* The body the transducer returns for the node at position k of the sorted TOC
BodyOf(k) ==
    IF ~client_ok THEN NoKeyPlaceholder
    ELSE IF backend[k].kind = "raise" THEN ErrorPlaceholder(backend[k].text)
    ELSE backend[k].text

\* text followed by the blocks of the nodes at positions k..last, each on a
\* new line
RECURSIVE AppendBlocks(_, _, _, _)
AppendBlocks(text, sorted, k, last) ==
    IF k > last THEN text
    ELSE LET block == BlockText(sorted[k], BodyOf(k))
         IN  AppendBlocks(IF text = <<>> THEN block ELSE text \o <<NL>> \o block,
                          sorted, k + 1, last)

CallMade == last_call.made
SortedNodes == SortToc(table_of_contents)
TotalSections == Len(table_of_contents)
HasStop(c) == \E j \in DOMAIN c.events : c.events[j].kind = "stop"

\* C1: the returned text begins with existing_report unchanged, and what
\* follows is the blocks of nodes at consecutive sorted positions, all of them
\* >= start_index, each once.
C1_Resumability ==
    CallMade =>
        /\ StartsWith(last_call.report, last_call.existing_report)
        /\ \E f \in 0..TotalSections : \E m \in 0..(TotalSections - f) :
              /\ m > 0 => f >= last_call.start_index
              /\ last_call.report =
                     AppendBlocks(last_call.existing_report, SortedNodes, f + 1, f + m)

\* A call from a later index that appended a block to a non-empty text
C1_Witness ==
    /\ CallMade
    /\ last_call.start_index >= 1
    /\ last_call.existing_report # <<>>
    /\ Len(last_call.report) > Len(last_call.existing_report)

\* C3: a node is stopped at exactly when the estimate seen before it exceeds
\* 90% of the budget; the call then returns is_complete = false, the text as
\* it was before that node, a count that excludes the node, and the node and
\* every later node get no retrieval call, no generation call and no block.
C3_BudgetGuard ==
    CallMade =>
        LET c == last_call
            ev == c.events
        IN  \A j \in DOMAIN ev :
              /\ (ev[j].kind = "stop") <=> (10 * ev[j].tokens > 9 * c.limit)
              /\ ev[j].kind = "stop" =>
                    /\ j = Len(ev)
                    /\ c.is_complete = FALSE
                    /\ c.completed_count = c.start_index + (j - 1)
                    /\ c.start_index \in 0..TotalSections
                           => c.completed_count = ev[j].pos - 1
                    /\ \A i \in 1..(j - 1) : ev[i].pos < ev[j].pos
                    /\ c.report = AppendBlocks(c.existing_report, SortedNodes,
                                               ev[j].pos - (j - 1), ev[j].pos - 1)

\* The guard stops a pass from scratch after at least one block, before the
\* last node
C3_Witness ==
    /\ CallMade
    /\ last_call.start_index = 0
    /\ HasStop(last_call)
    /\ Len(last_call.events) >= 2
    /\ last_call.completed_count < TotalSections
    /\ last_call.report # <<>>

\* C4: for 0 <= start_index <= number of nodes, is_complete = false is
\* returned only when the guard tripped; when it does not trip, every node from
\* start_index on is processed in order, is_complete is true and
\* completed_count is the number of nodes.
C4_PauseOnlyFromGuard ==
    (CallMade /\ last_call.start_index \in 0..TotalSections) =>
        LET c == last_call
            ev == c.events
        IN  /\ c.is_complete = FALSE => HasStop(c)
            /\ ~HasStop(c) =>
                  /\ c.is_complete = TRUE
                  /\ c.completed_count = TotalSections
                  /\ Len(ev) = TotalSections - c.start_index
                  /\ \A j \in DOMAIN ev : ev[j].pos = c.start_index + j

\* A call from a later index that ran to the end without the guard
C4_Witness ==
    /\ CallMade
    /\ last_call.start_index >= 1
    /\ last_call.start_index < TotalSections
    /\ ~HasStop(last_call)
    /\ last_call.is_complete = TRUE

----------------------------------------------------------------------------
(* Resume: claim C2 *)

\* The result of one call from scratch under budget limit
OnePass(limit) ==
    generate_full_report(table_of_contents, 0, <<>>, [CallEnv EXCEPT !.limit = limit])

\* C2: with the TOC and the transducer unchanged, a pass that stopped after k
\* sections and was resumed from k with the returned text ends with the report
\* that a single call generating every section returns.
C2_ResumeEqualsOnePass ==
    (CallMade /\ prev_call.made /\ last_call.is_complete) =>
        \A limit \in Limits :
            OnePass(limit).is_complete => last_call.report = OnePass(limit).report

\* A three-section pass stopped after two sections, then resumed to the end
C2_Witness ==
    /\ CallMade
    /\ prev_call.made
    /\ TotalSections = 3
    /\ prev_call.completed_count = 2
    /\ last_call.start_index = 2
    /\ last_call.is_complete
    /\ Len(last_call.report) > Len(prev_call.report)

----------------------------------------------------------------------------
(* Specification SpecRoundTrip: combine_sections, then parse_report_sections *)

MaxSections == 2

\* Section bodies: one line, two lines, none, and one with a line that has
\* the shape of a section header
BodyTwoLines == <<"*", "a", NL, "*", "b">>
BodyWithHeader == <<"*", "a", NL, "2", DOT, SP, "x">>

SectionRecords ==
    { [number |-> n, title |-> t, content |-> c] :
        n \in { <<"1">>, <<"2">>, <<"1", DASH, "1">> },
        t \in { TitleA, TitlePlan },
        c \in { BodyShort, BodyTwoLines, <<>>, BodyWithHeader } }

RECURSIVE SectionListsUpTo(_)
SectionListsUpTo(n) ==
    IF n = 0 THEN {<<>>}
    ELSE LET shorter == SectionListsUpTo(n - 1)
         IN  shorter \cup { Append(l, r) : l \in shorter, r \in SectionRecords }

SectionLists == SectionListsUpTo(MaxSections)

RoundTripInit ==
    /\ pc = "ready"
    /\ sections_in \in SectionLists
    /\ flat_text = <<>>
    /\ sections_out = <<>>
    /\ request_input = <<>>
    /\ intent = NoIntent
    /\ generated_report = <<>>
    /\ last_refine = NoCall
    /\ current_year = 2
    /\ has_next_year_section = FALSE
    /\ matching_sections = <<>>
    /\ YearIdle
    /\ LoopIdle
    /\ EditIdle

Combine ==
    /\ pc = "ready"
    /\ flat_text' = combine_sections(sections_in)
    /\ pc' = "flat"
    /\ UNCHANGED <<sections_in, sections_out, request_input, intent, generated_report,
                   last_refine, yearVars, ctxVars, loopVars, editVars, session>>

Parse ==
    /\ pc = "flat"
    /\ sections_out' = parse_report_sections(flat_text)
    /\ pc' = "parsed"
    /\ UNCHANGED <<sections_in, flat_text, request_input, intent, generated_report,
                   last_refine, yearVars, ctxVars, loopVars, editVars, session>>

RoundTripNext == Combine \/ Parse

SpecRoundTrip == RoundTripInit /\ [][RoundTripNext]_vars

----------------------------------------------------------------------------
(* Round trip: claim C7 *)

\* No line of the content begins with a digit
NoHeaderLine(content) ==
    \A line \in { Split(content, <<NL>>)[k] : k \in DOMAIN Split(content, <<NL>>) } :
        ~IsHeaderLine(Strip(line))

\* C7: for sections whose content has no line of section-header shape,
\* parsing the flattened text gives back the same number, title and content,
\* in the same order.
C7_RoundTrip ==
    (pc = "parsed" /\ \A k \in DOMAIN sections_in : NoHeaderLine(sections_in[k].content)) =>
        sections_out = sections_in

----------------------------------------------------------------------------
(* Specification SpecIntent: analyze_modification_request applied to a request *)

MaxFragments == 2

\* The pieces a request is made of: section references in each pattern's
\* shape, markers of the whole-scope and of the additive intent, other text
RequestFragments ==
    { <<"x">>, <<"A">>, <<SP>>, <<"3">>, <<DASH>>, <<BEON>>, <<SEK, SYEON>>,
      <<"1", BEON>>, <<"1", DASH, "1", BEON>>, <<"1", DASH, "1", DASH, "2", BEON, JJAE>>,
      <<SEK, SYEON, SP, "2">>,
      <<JEON, CHE>>, <<MO, DU>>, <<DA, SI>>, <<CHU, GA>>, <<DEO>>, <<BO, WAN>> }

RECURSIVE RequestsUpTo(_)
RequestsUpTo(n) ==
    IF n = 0 THEN {<<>>}
    ELSE LET shorter == RequestsUpTo(n - 1)
         IN  shorter \cup { t \o f : t \in shorter, f \in RequestFragments }

RequestTexts == RequestsUpTo(MaxFragments)

IntentInit ==
    /\ pc = "ready"
    /\ request_input \in RequestTexts
    /\ intent = NoIntent
    /\ sections_in = <<>>
    /\ flat_text = <<>>
    /\ sections_out = <<>>
    /\ generated_report = <<>>
    /\ last_refine = NoCall
    /\ current_year = 2
    /\ has_next_year_section = FALSE
    /\ matching_sections = <<>>
    /\ YearIdle
    /\ LoopIdle
    /\ EditIdle

Analyze ==
    /\ pc = "ready"
    /\ intent' = analyze_modification_request(request_input)
    /\ pc' = "done"
    /\ UNCHANGED <<sections_in, flat_text, sections_out, request_input, generated_report,
                   last_refine, yearVars, ctxVars, loopVars, editVars, session>>

IntentNext == Analyze

SpecIntent == IntentInit /\ [][IntentNext]_vars

----------------------------------------------------------------------------
(* Intent classification: claim C9 *)

\* One to three runs of digits joined by single dashes
NumberShape(t) ==
    /\ t # <<>>
    /\ \A i \in DOMAIN t : IsDigit(t[i]) \/ t[i] = DASH
    /\ IsDigit(t[1]) /\ IsDigit(t[Len(t)])
    /\ \A i \in 1..(Len(t) - 1) : ~(t[i] = DASH /\ t[i + 1] = DASH)
    /\ Cardinality({ i \in DOMAIN t : t[i] = DASH }) <= 2

\* The section-number references of a request: a number right before the
\* counter word, or right after the word "section" and any whitespace
SectionReferences(request) ==
    { SubSeq(request, i, j) : i \in DOMAIN request, j \in DOMAIN request } \cap
    { t \in UNION { { SubSeq(request, i, j) : j \in i..Len(request) } : i \in DOMAIN request } :
        /\ NumberShape(t)
        /\ \E i \in DOMAIN request :
            /\ OccursAt(request, t, i)
            /\ \/ OccursAt(request, <<BEON>>, i + Len(t))
               \/ \E a \in 1..i :
                    /\ OccursAt(request, <<SEK, SYEON>>, a)
                    /\ a + 2 <= i
                    /\ \A k \in (a + 2)..(i - 1) : IsSpace(request[k]) }

HasWholeMarker(request) ==
    \/ Contains(request, <<JEON, CHE>>)
    \/ Contains(request, <<MO, DU>>)
    \/ Contains(request, <<DA, SI>>)

HasAddMarker(request) ==
    \/ Contains(request, <<CHU, GA>>)
    \/ Contains(request, <<DEO>>)
    \/ Contains(request, <<BO, WAN>>)

\* C9: every request gets one of the four intents, by the first match of:
\* whole-scope marker (regenerate_all, even with a section reference), section
\* reference (specific_section with the captured number), additive marker
\* (add_content), otherwise general.
C9_IntentPriority ==
    (pc = "done" /\ intent.type # "none") =>
        /\ intent.type \in {"regenerate_all", "specific_section", "add_content", "general"}
        /\ IF HasWholeMarker(request_input)
           THEN intent.type = "regenerate_all"
           ELSE IF SectionReferences(request_input) # {}
           THEN intent.type = "specific_section"
                /\ intent.target \in SectionReferences(request_input)
           ELSE IF HasAddMarker(request_input)
           THEN intent.type = "add_content"
           ELSE intent.type = "general"

\* A request with a whole-scope marker and a section reference was classified
C9_Witness ==
    /\ pc = "done"
    /\ HasWholeMarker(request_input)
    /\ SectionReferences(request_input) # {}
    /\ intent.type = "regenerate_all"

----------------------------------------------------------------------------
(* Specification SpecRefine: a generation pass from scratch, then            *)
(* refine_report_with_request applied to the report the session holds        *)

\* Requests of each intent: whole scope (without and with a section
\* reference), a top-level section, a child section, a section that no report
\* has, an addition, and anything else
ReqAll == <<JEON, CHE>>
ReqAllRef == <<"1", BEON, SP, DA, SI>>
ReqOne == <<"1", BEON>>
ReqChild == <<SEK, SYEON, SP, "1", DASH, "1">>
ReqMissing == <<"7", BEON, JJAE>>
ReqAdd == <<CHU, GA>>
ReqGeneral == <<"x">>
Requests == {ReqAll, ReqAllRef, ReqOne, ReqChild, ReqMissing, ReqAdd, ReqGeneral}

\* What the backend answers to the request of refine_single_section (the
\* other intents do not ask it on their own): a body or an exception
Replies == {ReplyShort, ReplyRaise}
RepliesTo(request) ==
    IF analyze_modification_request(request).type = "specific_section"
    THEN Replies ELSE {ReplyShort}

\* A call of refine_report_with_request with its arguments, result and events
RefineResult(request, current_report, r) ==
    [ made |-> TRUE,
      request |-> request,
      current_report |-> current_report,
      type |-> r.type,
      target |-> r.target,
      sections |-> r.sections,
      report |-> r.report,
      events |-> r.events ]

RefineRecord(request, reply) ==
    RefineResult(request, generated_report,
                 refine_report_with_request(generated_report, request, table_of_contents,
                                            CallEnv, reply))

RefineInit ==
    /\ pc = "generated"
    /\ table_of_contents \in Tocs
    /\ max_token_limit \in Limits \ {1}
    /\ db_docs \in DbChoices
    /\ \E b \in BackendConfigs :
        /\ backend = b.backend
        /\ client_ok = b.client_ok
    /\ current_year = 2
    /\ \E c \in LoopContexts :
        /\ has_next_year_section = c.has_next
        /\ matching_sections = c.matching
    /\ last_call = CallRecord(0, <<>>)
    /\ prev_call = NoCall
    \* the session holds the report as generated, or as an earlier refinement
    \* with a general request left it
    /\ generated_report \in
           { last_call.report,
             refine_report_with_request(last_call.report, ReqGeneral, table_of_contents,
                                        CallEnv, ReplyShort).report }
    /\ last_refine = NoCall
    /\ sections_in = <<>>
    /\ flat_text = <<>>
    /\ sections_out = <<>>
    /\ request_input = <<>>
    /\ intent = NoIntent
    /\ YearIdle
    /\ EditIdle

\* The caller applies a modification request to the report it holds and
\* keeps the returned report
RefineReport ==
    /\ pc = "generated"
    /\ \E request \in Requests :
           \E reply \in RepliesTo(request) : last_refine' = RefineRecord(request, reply)
    /\ generated_report' = last_refine'.report
    /\ pc' = "refined"
    /\ UNCHANGED <<sections_in, flat_text, sections_out, request_input, intent,
                   yearVars, ctxVars, loopVars, editVars, session>>

RefineNext == RefineReport

SpecRefine == RefineInit /\ [][RefineNext]_vars

----------------------------------------------------------------------------
(* Refinement: claims C8 and C10 *)

RefineMade == last_refine.made

\* C8: a request classified as general or as add_content causes no generation
\* call and gives back a report equal to the current report.
C8_NoOpIntents ==
    (RefineMade /\ last_refine.type \in {"general", "add_content"}) =>
        /\ last_refine.events = <<>>
        /\ last_refine.report = last_refine.current_report

\* The session's generation pass ran from scratch
ScratchPass == last_call.made /\ last_call.start_index = 0 /\ last_call.existing_report = <<>>

----------------------------------------------------------------------------
(* Refinement of one section: claim C11 *)

\* The records parsed from the report the call was given
ParsedBefore == parse_report_sections(last_refine.current_report)

\* new is old with the first record numbered target replaced by the record
\* that the one generation call of events produced
TargetSpliced(old, new, target, events) ==
    /\ Len(events) = 1
    /\ events[1].kind = "section"
    /\ Len(new) = Len(old)
    /\ \A k \in DOMAIN old : new[k].number = old[k].number
    /\ \E t \in DOMAIN old :
          /\ old[t].number = target
          /\ \A j \in 1..(t - 1) : old[j].number # target
          /\ new[t] = [number |-> target, title |-> events[1].title,
                       content |-> events[1].content]
          /\ \A k \in DOMAIN old \ {t} : new[k] = old[k]

HasNumber(sections, number) == \E k \in DOMAIN sections : sections[k].number = number

\* C11: when the target of a specific_section request is the number of a
\* parsed record, one generation call is made, and the record list that is
\* flattened has the same length and numbers, the regenerated record in place
\* of the first record with that number, and every other record unchanged in
\* its place.
C11_ReplacesOneRecord ==
    (RefineMade /\ last_refine.type = "specific_section"
       /\ HasNumber(ParsedBefore, last_refine.target)) =>
        /\ TargetSpliced(ParsedBefore, last_refine.sections, last_refine.target,
                         last_refine.events)
        /\ last_refine.report = combine_sections(last_refine.sections)

\* The second of several records was regenerated with a new body
C11_Witness ==
    /\ RefineMade
    /\ last_refine.type = "specific_section"
    /\ Len(last_refine.sections) >= 2
    /\ last_refine.sections[1].number # last_refine.target
    /\ last_refine.sections[2].number = last_refine.target
    /\ last_refine.sections[2] # ParsedBefore[2]

----------------------------------------------------------------------------
(* Layout of the two writers: claim C12 *)

\* The sections a call emitted, in the order it emitted them: the number and
\* title of each node it generated and the body it got for it
EmittedRecords(c) ==
    LET at == { j \in DOMAIN c.events : c.events[j].kind = "section" }
    IN  Listed([ m \in 1..Cardinality(at) |->
                   LET ev == c.events[Nth(at, m)]
                   IN  [ number |-> SortedNodes[ev.pos].number,
                         title |-> ev.title,
                         content |-> ev.content ] ])

\* C12: the text of a pass of the assembly loop from scratch is the text that
\* combine_sections produces for the list of the (number, title, body) of the
\* sections it emitted: both write header, underline of the header's length,
\* blank line, body and two blank lines for each.
C12_SameLayout ==
    (CallMade /\ ScratchPass) =>
        last_call.report = combine_sections(EmittedRecords(last_call))

\* A pass from scratch that wrote several sections, one of them with a
\* placeholder body
C12_Witness ==
    /\ CallMade
    /\ ScratchPass
    /\ Len(EmittedRecords(last_call)) >= 2
    /\ \E k \in DOMAIN EmittedRecords(last_call) :
          StartsWith(EmittedRecords(last_call)[k].content, <<WARN>>)
    /\ last_call.is_complete

----------------------------------------------------------------------------
(* Next-year routing: claim C13 *)

\* The title and some matching title contain one another
MutualContainment(title) ==
    \E k \in DOMAIN matching_sections :
        \/ Contains(title, matching_sections[k])
        \/ Contains(matching_sections[k], title)

\* The generation call of event ev, made for a node with this title, got the
\* matching titles iff the title is in mutual containment with one of them,
\* and an empty list otherwise
RoutedFor(ev, title) ==
    /\ ev.title = title
    /\ ev.matching = IF MutualContainment(title) THEN matching_sections ELSE <<>>

\* The title of the node that a specific_section request regenerates: the
\* title the TOC has for the target number, else the title parsed from the report
RefinedTitle ==
    IF HasNumber(table_of_contents, last_refine.target)
    THEN table_of_contents[FirstWithNumber(table_of_contents, last_refine.target)].title
    ELSE ParsedBefore[FirstWithNumber(ParsedBefore, last_refine.target)].title

\* C13: in the assembly loop and in the regeneration of one section alike,
\* the generation call for a node receives the matching titles iff the node's
\* title and some matching title contain one another (either direction), and
\* an empty list for every other node, even when has_next_year_section holds.
C13_NextYearRouting ==
    /\ CallMade =>
          \A j \in DOMAIN last_call.events :
              last_call.events[j].kind = "section" =>
                  RoutedFor(last_call.events[j], SortedNodes[last_call.events[j].pos].title)
    /\ (RefineMade /\ last_refine.type = "specific_section") =>
          \A j \in DOMAIN last_refine.events : RoutedFor(last_refine.events[j], RefinedTitle)

\* With has_next_year_section set, the pass routed the matching titles to a
\* node whose title is inside a matching title and an empty list to another
\* node, and the regeneration of one section got the matching titles
C13_Witness ==
    /\ RefineMade
    /\ has_next_year_section
    /\ matching_sections = <<TitleB, TitlePlanLong>>
    /\ \E i, j \in DOMAIN last_call.events :
          /\ last_call.events[i].kind = "section"
          /\ last_call.events[j].kind = "section"
          /\ last_call.events[i].title = TitleA
          /\ last_call.events[i].matching = <<>>
          /\ last_call.events[j].title = TitlePlan
          /\ last_call.events[j].matching = matching_sections
    /\ last_refine.type = "specific_section"
    /\ Len(last_refine.events) = 1
    /\ last_refine.events[1].title = TitleB
    /\ last_refine.events[1].matching = matching_sections

----------------------------------------------------------------------------
(* The transducer fails closed: claim C14 *)

\* A placeholder string: it begins with the warning sign
IsPlaceholder(text) == StartsWith(text, <<WARN, VS16>>)

\* The generation calls of the last pass
GenerationEvents == { j \in DOMAIN last_call.events : last_call.events[j].kind = "section" }

\* C14: generate_section_content never raises to its caller; without a
\* configured backend it makes no backend call and returns a placeholder that
\* begins with the warning sign, and when the backend call fails it returns a
\* placeholder that begins with the warning sign.
C14_FailsClosed ==
    CallMade =>
        \A j \in GenerationEvents :
            LET ev == last_call.events[j]
            IN  /\ ~ev.raised
                /\ ~client_ok => (ev.backend_calls = 0 /\ IsPlaceholder(ev.content))
                /\ (client_ok /\ backend[ev.pos].kind = "raise") =>
                       IsPlaceholder(ev.content)

\* A pass in which the backend call failed for one node and answered for
\* another
C14_Witness ==
    /\ CallMade
    /\ client_ok
    /\ \E i, j \in GenerationEvents :
          /\ backend[last_call.events[i].pos].kind = "raise"
          /\ IsPlaceholder(last_call.events[i].content)
          /\ backend[last_call.events[j].pos].kind = "text"
          /\ ~IsPlaceholder(last_call.events[j].content)

----------------------------------------------------------------------------
(* A failed section consumes its slot: claim C15 *)

\* The generation calls of the last pass that returned a placeholder
FailedEvents == { j \in GenerationEvents : IsPlaceholder(last_call.events[j].content) }

\* C15: when the generation of a node returns a placeholder, the pass still
\* writes the node's block with the placeholder as its body, counts the node
\* in completed_count, makes no second generation call for it, and goes on to
\* the next node.
C15_FailedSectionCounts ==
    CallMade =>
        LET ev == last_call.events
        IN  /\ last_call.completed_count
                   = last_call.start_index + Cardinality(GenerationEvents)
            /\ \A j \in FailedEvents :
                  /\ Contains(last_call.report,
                              BlockText(SortedNodes[ev[j].pos], ev[j].content))
                  /\ \A i \in GenerationEvents : ev[i].pos = ev[j].pos => i = j
                  /\ \/ ev[j].pos = Len(SortedNodes) /\ j = Len(ev)
                     \/ j < Len(ev) /\ ev[j + 1].pos = ev[j].pos + 1

\* A complete pass over three nodes in which the second node failed and the
\* third was generated
C15_Witness ==
    /\ CallMade
    /\ ScratchPass
    /\ Len(SortedNodes) = 3
    /\ 2 \in FailedEvents
    /\ 3 \in GenerationEvents \ FailedEvents
    /\ last_call.completed_count = 3
    /\ last_call.is_complete

----------------------------------------------------------------------------
(* Emission order: claim C16 *)

\* a < b for strings, by the first position at which they differ
StringBefore(a, b) ==
    \E k \in 1..(Len(b)) :
        /\ k - 1 <= Len(a)
        /\ \A i \in 1..(k - 1) : a[i] = b[i]
        /\ k > Len(a) \/ Ord(a[k]) < Ord(b[k])

\* x comes before y in ascending order of (level, number as a string)
EmittedBefore(x, y) ==
    x.level < y.level \/ (x.level = y.level /\ StringBefore(x.number, y.number))

\* The nodes of the TOC that come before x in that order
NodesBefore(x) ==
    { k \in DOMAIN table_of_contents : EmittedBefore(table_of_contents[k], x) }

\* C16: the pass emits the sections in ascending order of (level, number
\* compared as a string): the generation call at position p is for the node
\* that has p - 1 nodes before it in that order, so every level-1 section
\* comes before any level-2 section whatever the nesting, and start_index and
\* completed_count count positions of that order.
C16_EmissionOrder ==
    (CallMade /\ last_call.start_index \in 0..TotalSections) =>
        LET ev == last_call.events
        IN  /\ \A j \in DOMAIN ev : ev[j].pos = last_call.start_index + j
            /\ last_call.completed_count
                   = last_call.start_index + Cardinality(GenerationEvents)
            /\ \A j \in GenerationEvents :
                  \E k \in DOMAIN table_of_contents :
                      LET node == table_of_contents[k]
                      IN  /\ Cardinality(NodesBefore(node)) = ev[j].pos - 1
                          /\ ev[j].level = node.level
                          /\ ev[j].title = node.title
                          /\ ev[j].query = node.number \o <<SP>> \o node.title
            /\ \A i, j \in GenerationEvents : i < j => ev[i].level <= ev[j].level

\* A complete pass from scratch over the TOC 1-1, 2, 10 (in this order):
\* section 10 is emitted first, then 2, then the level-2 section 1-1
C16_Witness ==
    /\ CallMade
    /\ ScratchPass
    /\ Len(table_of_contents) = 3
    /\ table_of_contents[1].number = <<"1", DASH, "1">>
    /\ table_of_contents[2].number = <<"2">>
    /\ table_of_contents[3].number = <<"1", "0">>
    /\ GenerationEvents = {1, 2, 3}
    /\ last_call.events[1].query = <<"1", "0", SP>>
    /\ last_call.events[3].level = 2
    /\ last_call.is_complete

----------------------------------------------------------------------------
(* Specification SpecToc: the TOC editor, driven by the buttons of           *)
(* render_toc_builder                                                        *)

\* The number of button presses followed
MaxEdits == 5

\* The session starts with an empty TOC.  The second start is the TOC that
\* nine presses of "add top-level section" and the deletion of sections 2 to 8
\* leave, from where section 10 is one press away.
TocStarts ==
    { <<>>, <<NewSection(<<"1">>, 1), NewSection(<<"9">>, 1)>> }

TocInit ==
    /\ pc = "editing"
    /\ table_of_contents \in TocStarts
    /\ last_edit = NoEdit
    /\ display_toc = <<>>
    /\ session = NoSession
    /\ max_token_limit = 0
    /\ db_docs = <<>>
    /\ backend = <<>>
    /\ client_ok = TRUE
    /\ last_call = NoCall
    /\ prev_call = NoCall
    /\ current_year = 2
    /\ has_next_year_section = FALSE
    /\ matching_sections = <<>>
    /\ YearIdle
    /\ RefineIdle

\* A call of the editor with its arguments and the TOC it found
EditRecord(op, parent_number, level, index) ==
    [ op |-> op,
      parent_number |-> parent_number,
      level |-> level,
      index |-> index,
      before |-> table_of_contents,
      count |-> last_edit.count + 1 ]

\* The button "add top-level section": add_section(level=1)
AddTopSection ==
    /\ last_edit.count < MaxEdits
    /\ table_of_contents' = add_section(table_of_contents, <<>>, 1)
    /\ last_edit' = EditRecord("add", <<>>, 1, -1)
    /\ UNCHANGED <<pc, display_toc, max_token_limit, db_docs, backend, client_ok, last_call,
                   prev_call, yearVars, ctxVars, refineVars, session>>

\* The button "add subsection" of a row of level 1 or 2:
\* add_section(parent_number=number, level=level + 1)
AddSubSection ==
    /\ last_edit.count < MaxEdits
    /\ \E k \in DOMAIN table_of_contents :
          /\ table_of_contents[k].level < 3
          /\ table_of_contents' =
                 add_section(table_of_contents, table_of_contents[k].number,
                             table_of_contents[k].level + 1)
          /\ last_edit' = EditRecord("add", table_of_contents[k].number,
                                     table_of_contents[k].level + 1, -1)
    /\ UNCHANGED <<pc, display_toc, max_token_limit, db_docs, backend, client_ok, last_call,
                   prev_call, yearVars, ctxVars, refineVars, session>>

\* The delete button of a row: delete_section(original_idx)
DeleteSection ==
    /\ last_edit.count < MaxEdits
    /\ \E k \in DOMAIN table_of_contents :
          /\ table_of_contents' = delete_section(table_of_contents, k - 1)
          /\ last_edit' = EditRecord("delete", <<>>, 0, k - 1)
    /\ UNCHANGED <<pc, display_toc, max_token_limit, db_docs, backend, client_ok, last_call,
                   prev_call, yearVars, ctxVars, refineVars, session>>

TocNext == AddTopSection \/ AddSubSection \/ DeleteSection

SpecToc == TocInit /\ [][TocNext]_vars

----------------------------------------------------------------------------
(* TOC editor: claims C17, C18 and C19 *)

\* The dash-separated segments of a number
Segments(number) == Split(number, <<DASH>>)

\* A decimal numeral of a positive integer
IsPositiveNumeral(seg) ==
    /\ seg # <<>>
    /\ \A i \in DOMAIN seg : IsDigit(seg[i])
    /\ seg[1] # "0"

\* The number without its last segment
ParentNumber(number) ==
    Join(SubSeq(Segments(number), 1, Len(Segments(number)) - 1), <<DASH>>)

TocNumbers == { table_of_contents[k].number : k \in DOMAIN table_of_contents }

\* C17: from the empty TOC, after any sequence of add_section calls (level
\* 1, or level L + 1 under an existing node of level L < 3) and delete_section
\* calls, the numbers are pairwise distinct sequences of positive integers
\* joined by dashes, each with as many segments as the node's level, and every
\* node of level 2 or 3 has its parent's number in the TOC.
C17_TocStructure ==
    pc = "editing" =>
        /\ \A i, j \in DOMAIN table_of_contents :
              table_of_contents[i].number = table_of_contents[j].number => i = j
        /\ \A k \in DOMAIN table_of_contents :
              LET node == table_of_contents[k]
              IN  /\ \A m \in DOMAIN Segments(node.number) :
                        IsPositiveNumeral(Segments(node.number)[m])
                  /\ Len(Segments(node.number)) = node.level
                  /\ node.level \in {2, 3} => ParentNumber(node.number) \in TocNumbers

\* A TOC with a node of level 3 left by a deletion that followed several adds
C17_Witness ==
    /\ pc = "editing"
    /\ last_edit.op = "delete"
    /\ last_edit.count >= 5
    /\ \E k \in DOMAIN table_of_contents : table_of_contents[k].level = 3
    /\ Len(table_of_contents) >= 3

\* The positions of the TOC before a deletion that the deletion keeps: all
\* but the index and the nodes whose number is the deleted number, a dash,
\* and more
KeptPositions(before, index) ==
    { k \in DOMAIN before :
        /\ k # index + 1
        /\ ~(/\ Len(before[k].number) > Len(before[index + 1].number)
             /\ SubSeq(before[k].number, 1, Len(before[index + 1].number) + 1)
                    = before[index + 1].number \o <<DASH>>) }

\* C18: delete_section(index) with a valid index removes the node at that
\* index and every node whose number starts with the deleted node's number
\* followed by a dash, and nothing else: the other nodes stay, unchanged and
\* in their order.
C18_CascadeDelete ==
    (pc = "editing" /\ last_edit.op = "delete") =>
        LET kept == KeptPositions(last_edit.before, last_edit.index)
        IN  /\ Len(table_of_contents) = Cardinality(kept)
            /\ \A m \in DOMAIN table_of_contents :
                  table_of_contents[m] = last_edit.before[Nth(kept, m)]

\* Section 1 was deleted with its subsection 1-1, and section 10 stayed
C18_Witness ==
    /\ pc = "editing"
    /\ last_edit.op = "delete"
    /\ last_edit.before[last_edit.index + 1].number = <<"1">>
    /\ \E k \in DOMAIN last_edit.before : last_edit.before[k].number = <<"1", DASH, "1">>
    /\ <<"1", "0">> \in TocNumbers
    /\ <<"1", DASH, "1">> \notin TocNumbers
    /\ <<"1">> \notin TocNumbers

\* The values of the segment at position pos of the numbers of the nodes of
\* a level whose number begins with prefix
SegmentValues(toc, level, prefix, pos) ==
    { ParseInt(Segments(toc[k].number)[pos]) :
        k \in { j \in DOMAIN toc :
                  /\ toc[j].level = level
                  /\ Len(toc[j].number) >= Len(prefix)
                  /\ SubSeq(toc[j].number, 1, Len(prefix)) = prefix } }

\* The maximum of a set of positive numbers, 0 when it is empty
Largest(S) == IF S = {} THEN 0 ELSE CHOOSE x \in S : \A y \in S : y <= x

\* The number that the claim gives to the node added by an add of a level
\* under parent_number: its prefix, and the value of its last segment
ClaimedPrefix(parent_number, level) ==
    IF level = 1 THEN <<>>
    ELSE IF level = 2 THEN Segments(parent_number)[1] \o <<DASH>>
    ELSE parent_number \o <<DASH>>

ClaimedLast(before, parent_number, level) ==
    1 + Largest(SegmentValues(before, level, ClaimedPrefix(parent_number, level), level))

\* C19: a level-1 add appends a node numbered one more than the largest
\* level-1 number (1 when there is none); a level-2 add appends P-(m+1) for
\* the first segment P of parent_number and the largest second segment m among
\* the level-2 nodes under P-; a level-3 add under a parent of two segments
\* appends parent-(m+1) for the largest third segment m among the level-3 nodes
\* under parent-; the nodes that were there are not changed.
C19_AddNumbering ==
    (pc = "editing" /\ last_edit.op = "add") =>
        LET before == last_edit.before
            prefix == ClaimedPrefix(last_edit.parent_number, last_edit.level)
        IN  /\ Len(table_of_contents) = Len(before) + 1
            /\ SubSeq(table_of_contents, 1, Len(before)) = before
            /\ LET added == table_of_contents[Len(table_of_contents)]
                   last == From(added.number, Len(prefix) + 1)
               IN  /\ added.level = last_edit.level
                   /\ added.title = <<>>
                   /\ SubSeq(added.number, 1, Len(prefix)) = prefix
                   /\ IsPositiveNumeral(last)
                   /\ ParseInt(last)
                          = ClaimedLast(before, last_edit.parent_number, last_edit.level)

\* A level-3 add under 1-1 that found a sibling, so that 1-1-2 was appended
C19_Witness ==
    /\ pc = "editing"
    /\ last_edit.op = "add"
    /\ last_edit.level = 3
    /\ last_edit.parent_number = <<"1", DASH, "1">>
    /\ table_of_contents[Len(table_of_contents)].number = <<"1", DASH, "1", DASH, "2">>

----------------------------------------------------------------------------
(* Specification SpecSort: sort_toc_by_hierarchy on lists of nodes *)

\* The longest list that is sorted
MaxSortLen == 4

\* The numbers of the nodes that are sorted: numbers of one and two segments,
\* a number of two digits, and the numbers "x" and "1-" that int() rejects
\* next to "0", whose key is [0] too
SortNumbers ==
    { <<"2">>, <<"1", DASH, "2">>, <<"1", DASH, "1">>, <<"1", "0">>, <<"1">>,
      <<"x">>, <<"0">>, <<"1", DASH>> }

SortNodes == { NewSection(number, Len(Split(number, <<DASH>>))) : number \in SortNumbers }

SortInputs == UNION { [1..n -> SortNodes] : n \in 0..MaxSortLen }

SortInit ==
    /\ pc = "unsorted"
    /\ table_of_contents \in SortInputs
    /\ last_edit = NoEdit
    /\ display_toc = <<>>
    /\ session = NoSession
    /\ max_token_limit = 0
    /\ db_docs = <<>>
    /\ backend = <<>>
    /\ client_ok = TRUE
    /\ last_call = NoCall
    /\ prev_call = NoCall
    /\ current_year = 2
    /\ has_next_year_section = FALSE
    /\ matching_sections = <<>>
    /\ YearIdle
    /\ RefineIdle

\* render_toc_builder sorts the TOC of the session for display
SortForDisplay ==
    /\ pc = "unsorted"
    /\ pc' = "sorted"
    /\ display_toc' = sort_toc_by_hierarchy(table_of_contents)
    /\ UNCHANGED <<table_of_contents, last_edit, max_token_limit, db_docs, backend, client_ok,
                   last_call, prev_call, yearVars, ctxVars, refineVars, session>>

SortNext == SortForDisplay

SpecSort == SortInit /\ [][SortNext]_vars

----------------------------------------------------------------------------
(* TOC editor: claim C20 *)

\* A number that reads as integers joined by dashes
ReadsAsIntegers(number) ==
    /\ number # <<>>
    /\ \A i \in DOMAIN number : IsDigit(number[i]) \/ number[i] = DASH
    /\ number[1] # DASH
    /\ number[Len(number)] # DASH
    /\ \A i \in 1..(Len(number) - 1) : ~(number[i] = DASH /\ number[i + 1] = DASH)

\* The number read as a sequence of integers, [0] when it is malformed
IntegerKey(number) ==
    IF ReadsAsIntegers(number)
    THEN [ m \in DOMAIN Segments(number) |-> ParseInt(Segments(number)[m]) ]
    ELSE <<0>>

\* Segment by segment, numerically, a prefix before its extensions
KeyBefore(a, b) ==
    \/ /\ Len(a) < Len(b)
       /\ \A i \in DOMAIN a : a[i] = b[i]
    \/ \E i \in DOMAIN a :
          /\ i <= Len(b)
          /\ a[i] < b[i]
          /\ \A j \in 1..(i - 1) : a[j] = b[j]

\* The place of the k-th node of the input in the sorted list
SortedPlace(toc, k) ==
    1 + Cardinality({ j \in DOMAIN toc :
                        KeyBefore(IntegerKey(toc[j].number), IntegerKey(toc[k].number)) })
      + Cardinality({ j \in 1..(k - 1) :
                        IntegerKey(toc[j].number) = IntegerKey(toc[k].number) })

\* C20: sort_toc_by_hierarchy returns a permutation of its input ordered by
\* the number read as a sequence of integers (split on dashes, compared
\* numerically segment by segment, a prefix before its extensions), a
\* malformed number sorting as [0], and nodes with equal keys keep their input
\* order: 2, 1-2, 1-1, 10 sorts to 1-1, 1-2, 2, 10.
C20_HierarchySort ==
    pc = "sorted" =>
        /\ Len(display_toc) = Len(table_of_contents)
        /\ \A k \in DOMAIN table_of_contents :
              display_toc[SortedPlace(table_of_contents, k)] = table_of_contents[k]

\* The list 2, 1-2, 1-1, 10 came out as 1-1, 1-2, 2, 10
C20_Witness ==
    /\ pc = "sorted"
    /\ Len(table_of_contents) = 4
    /\ table_of_contents[1].number = <<"2">>
    /\ table_of_contents[2].number = <<"1", DASH, "2">>
    /\ table_of_contents[3].number = <<"1", DASH, "1">>
    /\ table_of_contents[4].number = <<"1", "0">>
    /\ display_toc[1].number = <<"1", DASH, "1">>
    /\ display_toc[2].number = <<"1", DASH, "2">>
    /\ display_toc[3].number = <<"2">>
    /\ display_toc[4].number = <<"1", "0">>

----------------------------------------------------------------------------
(* Specification SpecRenumber: renumber_toc_by_hierarchy on lists of nodes,  *)
(* and on its own result                                                     *)

\* The longest list that is renumbered
MaxRenumberLen == 4

\* A node with a title of its own
TitledNode(number, level) == [number |-> number, title |-> <<"S">> \o number, level |-> level]

\* The nodes that are renumbered: two sections, their subsections, two
\* sub-subsections, and a node of level 2 that carries a top-level number
RenumberNodes ==
    { TitledNode(<<"1">>, 1), TitledNode(<<"2">>, 1),
      TitledNode(<<"1", DASH, "1">>, 2), TitledNode(<<"1", DASH, "2">>, 2),
      TitledNode(<<"2", DASH, "1">>, 2),
      TitledNode(<<"1", DASH, "1", DASH, "1">>, 3),
      TitledNode(<<"1", DASH, "2", DASH, "1">>, 3),
      TitledNode(<<"3">>, 2) }

RenumberInputs == UNION { [1..n -> RenumberNodes] : n \in 0..MaxRenumberLen }

RenumberInit ==
    /\ pc = "unnumbered"
    /\ table_of_contents \in RenumberInputs
    /\ last_edit = NoEdit
    /\ display_toc = <<>>
    /\ session = NoSession
    /\ max_token_limit = 0
    /\ db_docs = <<>>
    /\ backend = <<>>
    /\ client_ok = TRUE
    /\ last_call = NoCall
    /\ prev_call = NoCall
    /\ current_year = 2
    /\ has_next_year_section = FALSE
    /\ matching_sections = <<>>
    /\ YearIdle
    /\ RefineIdle

\* renumber_toc_by_hierarchy(table_of_contents)
Renumber ==
    /\ pc = "unnumbered"
    /\ pc' = "renumbered"
    /\ display_toc' = renumber_toc_by_hierarchy(table_of_contents)
    /\ last_edit' = [op |-> "renumber", count |-> 1, before |-> table_of_contents]
    /\ UNCHANGED <<table_of_contents, max_token_limit, db_docs, backend, client_ok,
                   last_call, prev_call, yearVars, ctxVars, refineVars, session>>

\* renumber_toc_by_hierarchy applied to the list it returned
RenumberAgain ==
    /\ pc = "renumbered"
    /\ pc' = "renumbered again"
    /\ display_toc' = renumber_toc_by_hierarchy(display_toc)
    /\ last_edit' = [op |-> "renumber", count |-> 2, before |-> display_toc]
    /\ UNCHANGED <<table_of_contents, max_token_limit, db_docs, backend, client_ok,
                   last_call, prev_call, yearVars, ctxVars, refineVars, session>>

RenumberNext == Renumber \/ RenumberAgain

SpecRenumber == RenumberInit /\ [][RenumberNext]_vars

----------------------------------------------------------------------------
(* Renumbering: claims C21, C23, C28 and C29 *)

\* The nodes of a TOC in hierarchical order (the order that C20 states),
\* from the list of their keys
RankOf(keys, k) ==
    1 + Cardinality({ j \in DOMAIN keys : KeyBefore(keys[j], keys[k]) })
      + Cardinality({ j \in 1..(k - 1) : keys[j] = keys[k] })

SortedByKeys(toc, keys) ==
    [ m \in DOMAIN toc |-> toc[CHOOSE k \in DOMAIN toc : RankOf(keys, k) = m] ]

HierarchySorted(toc) ==
    Listed(SortedByKeys(toc, Listed([ k \in DOMAIN toc |-> IntegerKey(toc[k].number) ])))

\* The number of nodes of a level at the positions a+1..b of a list
CountOfLevel(nodes, level, a, b) ==
    Cardinality({ j \in (a + 1)..b : nodes[j].level = level })

\* The position of the nearest node of a level before position k, 0 when
\* there is none
NearestBefore(nodes, level, k) ==
    Largest({ j \in 1..(k - 1) : nodes[j].level = level })

\* The number that the claim gives to a node of level 2 at position k
ClaimedLevel2(nodes, k) ==
    Str(CountOfLevel(nodes, 1, 0, k)) \o <<DASH>>
        \o Str(CountOfLevel(nodes, 2, NearestBefore(nodes, 1, k), k))

\* The number that the claim gives to the node at position k of the sorted
\* nodes
ClaimedNumber(nodes, k) ==
    IF nodes[k].level = 1 THEN Str(CountOfLevel(nodes, 1, 0, k))
    ELSE IF nodes[k].level = 2 THEN ClaimedLevel2(nodes, k)
    ELSE IF NearestBefore(nodes, 2, k) = 0 THEN nodes[k].number
    ELSE ClaimedLevel2(nodes, NearestBefore(nodes, 2, k)) \o <<DASH>>
             \o Str(CountOfLevel(nodes, 3, NearestBefore(nodes, 2, k), k))

\* The result is the nodes with the numbers of the claim
RenumberedAs(nodes, result) ==
    /\ Len(result) = Len(nodes)
    /\ \A k \in DOMAIN result :
          /\ result[k].level = nodes[k].level
          /\ result[k].title = nodes[k].title
          /\ result[k].number = ClaimedNumber(nodes, k)

Without(key) == SubSeq(key, 1, Len(key) - 1)

CanonicalKeys(toc, keys) ==
    /\ \A i, j \in DOMAIN keys : i < j => KeyBefore(keys[i], keys[j])
    /\ \A k \in DOMAIN keys :
          /\ Len(keys[k]) = toc[k].level
          /\ toc[k].level \in 1..3
          /\ \A m \in DOMAIN keys[k] : keys[k][m] >= 1
          /\ Len(keys[k]) > 1 => \E j \in DOMAIN keys : keys[j] = Without(keys[k])
          /\ keys[k][Len(keys[k])] > 1 =>
                 \E j \in DOMAIN keys :
                    keys[j] = Without(keys[k]) \o <<keys[k][Len(keys[k])] - 1>>

\* A TOC in canonical order: numerals joined by dashes, level-1 nodes
\* numbered 1..k, the children of each parent numbered from 1, every parent
\* present, listed in hierarchical order
Canonical(toc) ==
    /\ \A k \in DOMAIN toc :
          \A m \in DOMAIN Segments(toc[k].number) :
             IsPositiveNumeral(Segments(toc[k].number)[m])
    /\ CanonicalKeys(toc, Listed([ k \in DOMAIN toc |-> IntegerKey(toc[k].number) ]))

\* C21: for every TOC already in canonical order,
\* renumber_toc_by_hierarchy returns the same nodes with the same numbers in
\* the same order.
C21_CanonicalFixedPoint ==
    (pc = "renumbered" /\ Canonical(table_of_contents)) => display_toc = table_of_contents

\* 1, 1-1, 2, 2-1 was renumbered
C21_Witness ==
    /\ pc = "renumbered"
    /\ Canonical(table_of_contents)
    /\ Len(table_of_contents) = 4
    /\ table_of_contents[3].number = <<"2">>
    /\ table_of_contents[4].number = <<"2", DASH, "1">>
    /\ display_toc = table_of_contents

\* The numbers of the nodes of a list are pairwise distinct
DistinctNumbers(toc) ==
    \A i, j \in DOMAIN toc : toc[i].number = toc[j].number => i = j

\* C28: for every TOC whose nodes have levels in {1, 2, 3} and pairwise
\* distinct numbers, orphan nodes included, the numbers in the output of
\* renumber_toc_by_hierarchy are pairwise distinct.
C28_DistinctNumbers ==
    (/\ pc = "renumbered"
     /\ \A k \in DOMAIN table_of_contents : table_of_contents[k].level \in 1..3
     /\ DistinctNumbers(table_of_contents))
        => DistinctNumbers(display_toc)

\* C29: for every TOC whose nodes have levels in {1, 2, 3}, applying
\* renumber_toc_by_hierarchy to its own output returns that output unchanged.
C29_Idempotent ==
    (/\ pc = "renumbered again"
     /\ \A k \in DOMAIN table_of_contents : table_of_contents[k].level \in 1..3)
        => display_toc = last_edit.before

----------------------------------------------------------------------------
(* Year extraction: claim C24 *)

\* A mention of a year in the shape of a pattern variant starts at i: a whole
\* run of digits, the variant's letters, and for the second variant any
\* whitespace before the rest
MentionAt(text, i, pat) ==
    /\ IsDigit(text[i])
    /\ i = 1 \/ ~IsDigit(text[i - 1])
    /\ OccursAt(text, pat.lit, RunEnd(text, i, Digits))
    /\ \E b \in (RunEnd(text, i, Digits) + Len(pat.lit))..(Len(text) + 1) :
          /\ pat.ws \/ b = RunEnd(text, i, Digits) + Len(pat.lit)
          /\ \A j \in (RunEnd(text, i, Digits) + Len(pat.lit))..(b - 1) : IsSpace(text[j])
          /\ OccursAt(text, pat.post, b)

MentionStarts(text, pat) == { i \in DOMAIN text : MentionAt(text, i, pat) }

\* The number of the mention that starts at i
MentionValue(text, i) == ParseInt(SubSeq(text, i, RunEnd(text, i, Digits) - 1))

\* The numbers of all mentions, and of the first mention of each variant
AllMentioned(text) ==
    { MentionValue(text, i) :
        i \in UNION { MentionStarts(text, YearPatterns[p]) : p \in DOMAIN YearPatterns } }

FirstMentioned(text) ==
    { MentionValue(text, CHOOSE i \in MentionStarts(text, YearPatterns[p]) :
                            \A j \in MentionStarts(text, YearPatterns[p]) : i <= j) :
        p \in { q \in DOMAIN YearPatterns : MentionStarts(text, YearPatterns[q]) # {} } }

\* A strictly ascending list of the numbers of a set that lie in 1..10
AscendingYearsOf(years, mentioned) ==
    /\ \A k \in 1..(Len(years) - 1) : years[k] < years[k + 1]
    /\ \A k \in DOMAIN years : 1 <= years[k] /\ years[k] <= 10
    /\ { years[k] : k \in DOMAIN years } = { n \in mentioned : 1 <= n /\ n <= 10 }

\* C24 as stated: year extraction returns a strictly ascending,
\* duplicate-free list of integers within 1..10, and for each pattern variant
\* only the first capture of that variant in the text contributes.
C24_FirstCaptureOnly ==
    pc = "done" => AscendingYearsOf(DetectedYears, FirstMentioned(content_text))

\* C24 as amended: year extraction returns a strictly ascending,
\* duplicate-free list of integers within 1..10, and every capture of every
\* pattern variant in the text contributes.
C24_AllCaptures ==
    pc = "done" => AscendingYearsOf(DetectedYears, AllMentioned(content_text))

\* Two mentions in the shape of the first variant: both years are returned
C24_Witness ==
    /\ pc = "done"
    /\ content_text = <<"1", CHA, NYEON, DO, "2", CHA, NYEON, DO>>
    /\ DetectedYears = <<1, 2>>

----------------------------------------------------------------------------
(* Untitled nodes: claim C30 *)

\* C30: for a TOC node whose title is empty, the detector does not report
\* it, and the assembly loop passes an empty list of matching titles to its
\* generation call, whatever matching titles the context holds.
C30_UntitledNeverNextYear ==
    CallMade =>
        /\ \A k \in DOMAIN detect_next_year_sections(table_of_contents).matching_sections :
              detect_next_year_sections(table_of_contents).matching_sections[k] # <<>>
        /\ \A j \in DOMAIN last_call.events :
              (/\ last_call.events[j].kind = "section"
               /\ SortedNodes[last_call.events[j].pos].title = <<>>)
                  => last_call.events[j].matching = <<>>

----------------------------------------------------------------------------
(* Resumption: claim C27 *)

\* The last call resumed a paused call: start_index is the completed_count
\* that call returned, existing_report the text it returned, and the TOC, the
\* budget and the transducer are the same
ResumedAfterPause ==
    /\ CallMade
    /\ prev_call.made
    /\ ~prev_call.is_complete
    /\ last_call.start_index = prev_call.completed_count
    /\ last_call.existing_report = prev_call.report
    /\ last_call.limit = prev_call.limit

\* C27: after generate_full_report returns is_complete = false, calling it
\* again with the returned completed_count and text (TOC, budget and
\* transducer unchanged) processes at least one more section, so that
\* repeated resumption eventually returns is_complete = true.
C27_ResumeProgress ==
    ResumedAfterPause => last_call.completed_count > prev_call.completed_count

\* Every resumption under an unchanged budget stops where the paused call
\* stopped
C27_ResumeStuck ==
    ResumedAfterPause =>
        /\ last_call.completed_count = prev_call.completed_count
        /\ last_call.report = prev_call.report
        /\ ~last_call.is_complete

----------------------------------------------------------------------------
(* Specification SpecSession: one session of main, a run of the script per   *)
(* step                                                                      *)

\* The number of runs of the script followed
MaxRuns == 5

\* A budget that one very long section exhausts and a report of short
\* sections does not
SessionLimit == 10
BodyHuge == [i \in 1..40 |-> "b"]
ReplyHuge == [kind |-> "text", text |-> BodyHuge]

\* The transducer answers each run of the script in its own way: briefly, or
\* at great length
SessionBackends == { [k \in 1..MaxToc |-> ReplyShort], [k \in 1..MaxToc |-> ReplyHuge] }

SessionTocs ==
    { <<Node(<<"1">>, TitleA, 1), Node(<<"2">>, TitlePlan, 1)>>,
      <<Node(<<"1">>, TitleA, 1), Node(<<"1", DASH, "1">>, TitleB, 2),
        Node(<<"2">>, TitlePlan, 1)>> }

\* A request of each intent
SessionRequests == {ReqAll, ReqOne, ReqAdd, ReqGeneral}

SessionInit ==
    /\ pc = "session"
    /\ table_of_contents \in SessionTocs
    /\ max_token_limit = SessionLimit
    /\ db_docs = <<>>
    /\ backend \in SessionBackends
    /\ client_ok = TRUE
    /\ current_year = 2
    /\ has_next_year_section =
           detect_next_year_sections(table_of_contents).has_next_year_section
    /\ matching_sections = detect_next_year_sections(table_of_contents).matching_sections
    /\ last_call = NoCall
    /\ prev_call = NoCall
    /\ YearIdle
    /\ RefineIdle
    /\ EditIdle

\* The environment of the calls of a run in which the transducer answers as b
SessionEnv(b) == [CallEnv EXCEPT !.backend = b]

\* The run of the script that follows the event, with the transducer and the
\* exceptions of the run
Runs(event, request) ==
    /\ session.runs < MaxRuns
    /\ \E b \in SessionBackends, pass_raises \in BOOLEAN, refine_raises \in BOOLEAN :
          \E reply \in RepliesTo(request) :
             /\ backend' = b
             /\ session' = ScriptRun(session, generated_report, event, request,
                                     table_of_contents, SessionEnv(b), reply,
                                     pass_raises, refine_raises).session
             /\ generated_report' = ScriptRun(session, generated_report, event, request,
                                              table_of_contents, SessionEnv(b), reply,
                                              pass_raises, refine_raises).report
    /\ UNCHANGED <<pc, table_of_contents, max_token_limit, db_docs, client_ok, last_call,
                   prev_call, sections_in, flat_text, sections_out, request_input, intent,
                   last_refine, yearVars, ctxVars, editVars>>

\* st.rerun(), or the user touches a widget that changes nothing
Rerun ==
    /\ pc = "session"
    /\ Runs("none", <<>>)

\* The button that starts the generation
ClickStart ==
    /\ ~session.rerun
    /\ ~session.is_generating
    /\ Runs("start", <<>>)

\* The button that continues a paused generation
ClickContinue ==
    /\ ~session.rerun
    /\ session.is_generating
    /\ session.current_section_index < session.total_sections
    /\ Runs("continue", <<>>)

\* The button that applies the modification request typed in
ClickModify ==
    /\ ~session.rerun
    /\ generated_report # <<>>
    /\ \E request \in SessionRequests : Runs("modify", request)

SessionNext == Rerun \/ ClickStart \/ ClickContinue \/ ClickModify

SpecSession == SessionInit /\ [][SessionNext]_vars

----------------------------------------------------------------------------
(* Specification SpecExcerpt: refine_single_section on a filled store *)

\* "chunk_size = 1000" of main: every chunk of a source file has this many
\* characters, except the last one of the file
ChunkChars == 1000
Chunk(n) == [i \in 1..n |-> "c"]

\* Bounds
MaxStored == 6

\* The stores: up to MaxStored chunks of one source file, the last of them
\* of any of these lengths
LastChunkChars == {1, 500, ChunkChars}
Stores ==
    {<<>>} \cup
    { [k \in 1..n |-> IF k < n THEN Chunk(ChunkChars) ELSE Chunk(m)] :
        n \in 1..MaxStored, m \in LastChunkChars }

\* The body of the section to modify: empty, short, and around the 1000
\* characters that are passed on
PriorContents == { [i \in 1..n |-> "p"] : n \in {0, 3, PriorContentChars, PriorContentChars + 1} }

\* Requests that name section 1
ExcerptRequests == {ReqOne, ReqAllRef}

ExcerptToc == <<Node(<<"1">>, TitleA, 1), Node(<<"2">>, TitleB, 1)>>

ExcerptInit ==
    /\ pc = "excerpt"
    /\ table_of_contents = ExcerptToc
    /\ max_token_limit = 100
    /\ db_docs \in Stores
    /\ backend = [k \in 1..MaxToc |-> ReplyShort]
    /\ client_ok = TRUE
    /\ last_call = NoCall
    /\ prev_call = NoCall
    /\ current_year = 2
    /\ has_next_year_section = FALSE
    /\ matching_sections = <<>>
    /\ \E prior \in PriorContents :
           sections_in = << [number |-> <<"1">>, title |-> TitleA, content |-> prior],
                            [number |-> <<"2">>, title |-> TitleB, content |-> BodyShort] >>
    /\ request_input \in ExcerptRequests
    /\ flat_text = <<>>
    /\ sections_out = <<>>
    /\ intent = NoIntent
    /\ generated_report = <<>>
    /\ last_refine = NoCall
    /\ YearIdle
    /\ EditIdle

\* refine_single_section on section 1, and the excerpt that
\* generate_section_content embeds in its request
RefineSection ==
    /\ pc = "excerpt"
    /\ LET r == refine_single_section(<<"1">>, sections_in, request_input,
                                      table_of_contents, CallEnv, ReplyShort)
       IN  last_refine' =
               [ made |-> TRUE,
                 request |-> request_input,
                 prior |-> sections_in[1].content,
                 section |-> r.section,
                 source |-> r.events[1].source,
                 excerpt |-> SourceExcerpt(r.events[1].source) ]
    /\ pc' = "embedded"
    /\ UNCHANGED <<sections_in, flat_text, sections_out, request_input, intent,
                   generated_report, yearVars, ctxVars, loopVars, editVars, session>>

ExcerptNext == RefineSection

SpecExcerpt == ExcerptInit /\ [][ExcerptNext]_vars

\* C25: in specific_section handling, for every retrieval result (five
\* retrieved chunks of 1000 characters included) the literal modification
\* request and the first 1000 characters of the prior content are contained
\* in the source excerpt that remains after the 5000-character cap.
C25_RequestInExcerpt ==
    pc = "embedded" =>
        /\ Contains(last_refine.excerpt, last_refine.request)
        /\ Contains(last_refine.excerpt, Take(last_refine.prior, PriorContentChars))

----------------------------------------------------------------------------
(* The session: claims C22 and C26 *)

\* The section blocks of the stored report
StoredBlocks == parse_report_sections(generated_report)

\* The index of the progress is the number of blocks of the stored report
IndexCountsBlocks == session.current_section_index = Len(StoredBlocks)

\* The generation block of the last run raised, and the report and the index
\* are those the pass found, with is_generating cleared
RaisedPassKeptValues ==
    /\ generated_report = session.pass.report_before
    /\ session.current_section_index = session.pass.index_before
    /\ ~session.is_generating

\* C22: if the top-level generation pass raises, generated_report and
\* current_section_index keep the values they had before that pass, so that
\* the index still equals the number of blocks in the stored report, and
\* is_generating becomes false.
C22_ConsistentAfterException ==
    (pc = "session" /\ session.pass.outcome = "raised")
        => (RaisedPassKeptValues /\ IndexCountsBlocks)

\* The part of C22 that is the handler's own: the values are kept
C22_ValuesKept ==
    (pc = "session" /\ session.pass.outcome = "raised") => RaisedPassKeptValues

\* C26: in every state that start, continue, modification requests of every
\* intent and reruns reach in one session, the stored report has at most one
\* block per TOC node, and while is_generating holds current_section_index is
\* the number of blocks of the stored report.
C26_SessionConsistency ==
    pc = "session" =>
        /\ \A k \in DOMAIN table_of_contents :
              Cardinality({ j \in DOMAIN StoredBlocks :
                              StoredBlocks[j].number = table_of_contents[k].number }) <= 1
        /\ session.is_generating => IndexCountsBlocks

====
